---- MODULE Spec2Model ----
(***************************************************************************)
(* Devbox v1alpha1 -> v1alpha2 migration: the version conversion, the      *)
(* upgrade annotations, the retry helper and the upgrade tools (upgrade,   *)
(* devbox-pause, devbox-stop, devbox-transform, devbox-restore), modelled  *)
(* as state machines over one resource store.                              *)
(***************************************************************************)
EXTENDS Integers, Sequences, FiniteSets, TLC

VARIABLES
    src,        \* conversion: the v1alpha1 Devbox handed to ConvertTo
    dst,        \* conversion: the caller's v1alpha2 Devbox
    convPc,     \* conversion: "input" before a conversion, "converted" after
    back,       \* conversion: the v1alpha1 Devbox ConvertFrom fills from dst
    store,      \* the API server: resource name -> stored object
    now,        \* the wall clock, in seconds
    extWrites,  \* number of writes other clients have made so far
    tool,       \* the program that is running
    cfg,        \* its flags
    pc,         \* its position
    list,       \* the items of its last List call
    listKind,   \* the kind that was listed
    idxI,       \* the loop variable i: batch start index (0-based, as in the code)
    idxJ,       \* the loop variable j: item index (0-based)
    devbox,     \* the object the tool holds for the current item
    op,         \* the client call in progress
    retry,      \* the retryWithBackoff loop around it
    ctxDone,    \* whether the tool's context has been cancelled
    result,     \* "running", "ok" or "error"
    failedOn,   \* name of the resource whose failure ends the run, or ""
    err,        \* the error the run ends with, or ""
    started,    \* history: the writes started, as <<"stop" | "transform", resource name>>
    visited,    \* history: names of the resources the item loop has entered
    backupStates,   \* the tool's backupStates slice
    backupFile,     \* content of devbox_backup_states.json, <<>> when not written
    operationID,    \* the run's operation id
    step,       \* orchestrator: the numbered step of performUpgrade / main
    phaseLog,   \* history: an orchestrator's <<phase, "start" | "ok" | "error">> events;
                \* devbox-restore's logged errors and the tracker's calls as <<name, value>>
    controller, \* the controller deployment: "present" or "deleted"
    crds,       \* the two CustomResourceDefinitions
    backups,    \* names of the files written to the backup directory
    run,        \* which invocation of the tool this is: 1, or 2 when it is run again
    writes      \* history: Updates the store has accepted in this invocation

convVars == <<src, dst, convPc, back>>

clusterVars == <<store, now, extWrites>>

fileVars == <<backupStates, backupFile, operationID>>

orchVars == <<step, phaseLog>>

infraVars == <<controller, crds, backups>>

runVars == <<run, writes>>

toolVars == <<tool, cfg, pc, list, listKind, idxI, idxJ, devbox, op, retry, ctxDone, result,
              failedOn, err, started, visited, backupStates, backupFile, operationID,
              step, phaseLog, run, writes>>

vars == <<src, dst, convPc, back, store, now, extWrites, tool, cfg, pc, list, listKind, idxI,
          idxJ, devbox, op, retry, ctxDone, result, failedOn, err, started, visited,
          backupStates,
          backupFile, operationID, step, phaseLog, controller, crds, backups, run,
          writes>>

(***************************************************************************)
(* Bounds                                                                  *)
(***************************************************************************)
MaxCommits == 2

MaxDevboxes == 2
MaxReleases == 1
MaxExtWrites == 1
MaxBatchSize == 2

(***************************************************************************)
(* The resource store (the API server as the tools see it)                 *)
(***************************************************************************)
CommitStatusSuccess == "Success"
CommitStatusPending == "Pending"

DevboxStateRunning == "Running"
DevboxStateStopped == "Stopped"

AnnotationUpgradeStatus == "devbox.sealos.io/upgrade-status"
AnnotationUpgradeStep == "devbox.sealos.io/upgrade-step"
AnnotationUpgradeOperation == "devbox.sealos.io/upgrade-operation-id"
AnnotationUpgradeTimestamp == "devbox.sealos.io/upgrade-timestamp"
AnnotationOriginalState == "devbox.sealos.io/original-state"
AnnotationUpgradeVersion == "devbox.sealos.io/upgrade-version"
AnnotationUpgradeError == "devbox.sealos.io/upgrade-error"
AnnotationUpgradeProgress == "devbox.sealos.io/upgrade-progress"
AnnotationStorageUpgrade == "devbox.sealos.io/storage-upgrade"

UpgradeStatusPending == "pending"
UpgradeStatusInProgress == "in-progress"
UpgradeStatusPaused == "paused"
UpgradeStatusCompleted == "completed"
UpgradeStatusFailed == "failed"
UpgradeStatusRolledBack == "rolled-back"

UpgradeStepBackup == "backup"
UpgradeStepPause == "pause"
UpgradeStepCRDUpdate == "crd-update"
UpgradeStepTransform == "transform"
UpgradeStepFinalize == "finalize"
UpgradeStepRestore == "restore"

DevboxName(k) == "devbox-" \o ToString(k)
ReleaseName(k) == "release-" \o ToString(k)
DevboxNames == {DevboxName(k) : k \in 1..MaxDevboxes}
ReleaseNames == {ReleaseName(k) : k \in 1..MaxReleases}
Names == DevboxNames \cup ReleaseNames

\* An annotation map: a function from the keys that are present to strings.
NoAnnotations == [k \in {} |-> ""]
HasAnnotation(ann, key) == key \in DOMAIN ann
SetAnnotation(ann, key, value) ==
    [k \in DOMAIN ann \cup {key} |-> IF k = key THEN value ELSE ann[k]]
DeleteAnnotation(ann, key) == [k \in DOMAIN ann \ {key} |-> ann[k]]

\* The parts of a Devbox / DevBoxRelease the tools read or write.  rv is
\* metadata.resourceVersion; gen stands for every field only other clients
\* write; commits is Status.CommitHistory of a Devbox.
NewObject(kind, name, state, commits) ==
    [kind |-> kind, name |-> name, state |-> state, runtimeClass |-> "",
     rv |-> 1, ann |-> NoAnnotations, commits |-> commits, gen |-> 0]

NoObject == [NewObject("", "", "", <<>>) EXCEPT !.rv = 0]

\* client.Update on the store: rejected with a conflict when the object's
\* resourceVersion is not the stored one; a write that changes nothing leaves
\* the stored object (and its resourceVersion) as it is.
\* A store that takes every Update, whatever its resourceVersion.
IsConflictNever(obj) == FALSE
IsConflict(obj) == obj.rv # store[obj.name].rv
Written(obj) ==
    IF obj = store[obj.name] THEN obj ELSE [obj EXCEPT !.rv = @ + 1]

\* client.List: the stored objects of a kind, in name order.
ListOf(kind) ==
    IF kind = "Devbox" THEN [k \in 1..MaxDevboxes |-> store[DevboxName(k)]]
    ELSE [k \in 1..MaxReleases |-> store[ReleaseName(k)]]

\* Another client (a controller, a user) writes one of the objects the tool
\* has listed, while the tool runs.
ExtWrite ==
    /\ result = "running"
    /\ extWrites < MaxExtWrites
    /\ \E n \in {list[k].name : k \in 1..Len(list)} :
          /\ store' = [store EXCEPT ![n] = [@ EXCEPT !.rv = @ + 1, !.gen = @ + 1]]
          /\ retry' = IF retry.res \in {"running", "waiting"} /\ retry.attempt > 0 /\ n = op.name
                      THEN [retry EXCEPT !.extSinceFailure = TRUE] ELSE retry
    /\ extWrites' = extWrites + 1
    /\ UNCHANGED <<now, tool, cfg, pc, list, listKind, idxI, idxJ, devbox, op, ctxDone, result,
                   failedOn, err, started, visited>>
    /\ UNCHANGED fileVars
    /\ UNCHANGED orchVars
    /\ UNCHANGED infraVars
    /\ UNCHANGED convVars
    /\ UNCHANGED runVars

(***************************************************************************)
(* pkg/upgrade: the upgrade annotations                                    *)
(***************************************************************************)
UpgradeInfo(id, upgradeStep, status, originalState) ==
    [OperationID |-> id, Step |-> upgradeStep, Status |-> status, Version |-> "",
     OriginalState |-> originalState, Error |-> "", Progress |-> ""]

NoInfo == UpgradeInfo("", "", "", "")

\* time.Now().Format(time.RFC3339), to the second.
FormatTime(t) == "T" \o ToString(t)

SetIfNotEmpty(ann, key, value) ==
    IF value # "" THEN SetAnnotation(ann, key, value) ELSE ann

\* A tracker that records the original state on every call.
RecordOriginalStateOverwrites(ann, info) ==
    IF info.OriginalState # ""
    THEN SetAnnotation(ann, AnnotationOriginalState, info.OriginalState)
    ELSE ann

\* AddUpgradeAnnotations, the original-state step: recorded only when the
\* annotation is not there yet.
RecordOriginalState(ann, info) ==
    IF info.OriginalState # "" /\ ~HasAnnotation(ann, AnnotationOriginalState)
    THEN SetAnnotation(ann, AnnotationOriginalState, info.OriginalState)
    ELSE ann

\* AddUpgradeAnnotations: the annotations it writes on the object it fetched.
AddUpgradeAnnotations(ann, info, t) ==
    LET a1 == RecordOriginalState(ann, info)
        a2 == SetIfNotEmpty(a1, AnnotationUpgradeOperation, info.OperationID)
        a3 == SetIfNotEmpty(a2, AnnotationUpgradeStep, info.Step)
        a4 == SetIfNotEmpty(a3, AnnotationUpgradeStatus, info.Status)
        a5 == SetIfNotEmpty(a4, AnnotationUpgradeVersion, info.Version)
        a6 == SetIfNotEmpty(a5, AnnotationUpgradeError, info.Error)
        a7 == SetIfNotEmpty(a6, AnnotationUpgradeProgress, info.Progress)
    IN  SetAnnotation(a7, AnnotationUpgradeTimestamp, FormatTime(t))

\* UpdateUpgradeAnnotation: one key, and the timestamp.
UpdateUpgradeAnnotation(ann, annotationKey, value, t) ==
    SetAnnotation(SetAnnotation(ann, annotationKey, value),
                  AnnotationUpgradeTimestamp, FormatTime(t))

\* ClearUpgradeAnnotations, the list of annotations it deletes.
upgradeAnnotations ==
    {AnnotationUpgradeStatus, AnnotationUpgradeStep, AnnotationUpgradeOperation,
     AnnotationUpgradeTimestamp, AnnotationUpgradeVersion, AnnotationUpgradeError,
     AnnotationUpgradeProgress}

\* A clear that deletes the original state with the rest.
ClearWithOriginalState(ann) ==
    [k \in DOMAIN ann \ (upgradeAnnotations \cup {AnnotationOriginalState}) |-> ann[k]]

\* ClearUpgradeAnnotations: the annotations left on the object it fetched.
ClearUpgradeAnnotations(ann) == [k \in DOMAIN ann \ upgradeAnnotations |-> ann[k]]

\* ClearUpgradeAnnotations, its flag: one of the listed annotations was there.
modified(ann) == DOMAIN ann \cap upgradeAnnotations # {}

\* GetUpgradeInfo: a missing annotation reads as "".
AnnotationOrEmpty(ann, key) == IF HasAnnotation(ann, key) THEN ann[key] ELSE ""
GetUpgradeInfo(obj) ==
    [OperationID |-> AnnotationOrEmpty(obj.ann, AnnotationUpgradeOperation),
     Step |-> AnnotationOrEmpty(obj.ann, AnnotationUpgradeStep),
     Status |-> AnnotationOrEmpty(obj.ann, AnnotationUpgradeStatus),
     Version |-> AnnotationOrEmpty(obj.ann, AnnotationUpgradeVersion),
     OriginalState |-> AnnotationOrEmpty(obj.ann, AnnotationOriginalState),
     Error |-> AnnotationOrEmpty(obj.ann, AnnotationUpgradeError),
     Progress |-> AnnotationOrEmpty(obj.ann, AnnotationUpgradeProgress)]

\* forceStorageVersionUpdate / forceStorageVersionUpdateRelease: the object
\* written back to force the storage version.
forceStorageVersionUpdate(latest, t) ==
    LET marked == [latest EXCEPT !.ann = SetAnnotation(@, AnnotationStorageUpgrade,
                                     "transform-" \o latest.name \o "-" \o ToString(t))]
    IN  IF latest.kind = "Devbox" THEN [marked EXCEPT !.runtimeClass = "devbox-runtime"]
        ELSE marked

\* forceStorageVersionUpdate / forceStorageVersionUpdateRelease of the upgrade
\* tool: only the annotation.
upgradeForceStorageVersionUpdate(latest, t) ==
    [latest EXCEPT !.ann = SetAnnotation(@, AnnotationStorageUpgrade,
                               "upgrade-" \o latest.name \o "-" \o ToString(t))]

(***************************************************************************)
(* Client calls and retryWithBackoff                                       *)
(***************************************************************************)
\* A client call in progress.  kind is the function called; a call that
\* fetches the latest object first starts in phase "get", a bare
\* client.Update of a held object starts in phase "upd" with latest = that
\* object.  err is "" while it runs, then "ok" or the failure.
ReadsFirst(kind) == kind # "Update"

FirstPhase(kind) ==
    IF kind = "waitForCommitsToFinish" THEN "poll"
    ELSE IF ReadsFirst(kind) THEN "get" ELSE "upd"

NewOp(kind, name, held, info, key, value) ==
    [kind |-> kind, name |-> name, phase |-> FirstPhase(kind),
     latest |-> IF ReadsFirst(kind) THEN NoObject ELSE held,
     held |-> held, info |-> info, key |-> key, value |-> value, deadline |-> 0,
     polls |-> 0, err |-> ""]

NoOp == [NewOp("", "", NoObject, NoInfo, "", "") EXCEPT !.phase = "idle"]

\* operation() is called again by retryWithBackoff: the closure runs from its
\* first statement with the variables it captured.
Restart(o) == NewOp(o.kind, o.name, o.held, o.info, o.key, o.value)

\* The object the call sends to client.Update.
ToWrite(o, t) ==
    IF o.kind = "AddUpgradeAnnotations"
    THEN [o.latest EXCEPT !.ann = AddUpgradeAnnotations(@, o.info, t)]
    ELSE IF o.kind = "UpdateUpgradeAnnotation"
    THEN [o.latest EXCEPT !.ann = UpdateUpgradeAnnotation(@, o.key, o.value, t)]
    ELSE IF o.kind = "ClearUpgradeAnnotations"
    THEN [o.latest EXCEPT !.ann = ClearUpgradeAnnotations(@)]
    ELSE IF o.kind = "forceStorageVersionUpdate"
    THEN forceStorageVersionUpdate(o.latest, t)
    ELSE IF o.kind = "upgrade.forceStorageVersionUpdate"
    THEN upgradeForceStorageVersionUpdate(o.latest, t)
    ELSE o.latest

\* The call returns after its Get: a plain Get, and a ClearUpgradeAnnotations
\* that found none of its annotations on the object.
ReturnsAfterGet(kind, latest) ==
    \/ kind = "Get"
    \/ kind = "ClearUpgradeAnnotations" /\ ~modified(latest.ann)

\* client.Get of the call: it fails, or it returns the stored object.
OpGet ==
    /\ op.phase = "get"
    /\ \E fault \in BOOLEAN :
          op' = IF fault THEN [op EXCEPT !.phase = "done", !.err = "get-failed"]
                ELSE [op EXCEPT !.phase = IF ReturnsAfterGet(op.kind, store[op.name])
                                          THEN "done" ELSE "upd",
                                !.err = IF ReturnsAfterGet(op.kind, store[op.name])
                                        THEN "ok" ELSE "",
                                !.latest = store[op.name]]
    /\ UNCHANGED <<tool, cfg, pc, list, listKind, idxI, idxJ, devbox, retry, ctxDone, result,
                   failedOn, err, started, visited>>
    /\ UNCHANGED clusterVars
    /\ UNCHANGED fileVars
    /\ UNCHANGED orchVars
    /\ UNCHANGED infraVars
    /\ UNCHANGED convVars
    /\ UNCHANGED runVars

\* client.Update of the call: it fails, or it is rejected with a conflict, or
\* it is stored and the object the caller holds gets the new resourceVersion.
OpUpdate ==
    /\ op.phase = "upd"
    /\ \E fault \in BOOLEAN :
          LET obj == ToWrite(op, now)
          IN  IF fault
              THEN /\ op' = [op EXCEPT !.phase = "done", !.err = "update-failed"]
                   /\ UNCHANGED <<store, writes>>
              ELSE IF IsConflict(obj)
              THEN /\ op' = [op EXCEPT !.phase = "done", !.err = "conflict"]
                   /\ UNCHANGED <<store, writes>>
              ELSE /\ op' = [op EXCEPT !.phase = "done", !.err = "ok",
                                       !.latest = Written(obj)]
                   /\ store' = [store EXCEPT ![op.name] = Written(obj)]
                   /\ writes' = writes + 1
    /\ UNCHANGED <<tool, cfg, pc, list, listKind, idxI, idxJ, devbox, retry, ctxDone, result,
                   failedOn, err, started, visited>>
    /\ UNCHANGED <<now, extWrites>>
    /\ UNCHANGED fileVars
    /\ UNCHANGED orchVars
    /\ UNCHANGED infraVars
    /\ UNCHANGED convVars
    /\ UNCHANGED run

\* waitForCommitsToFinish: the poll interval and the check of one poll.
PollInterval == 10

HasActiveCommits(latest) ==
    \E c \in 1..Len(latest.commits) :
        \/ latest.commits[c].Status = CommitStatusPending
        \/ latest.commits[c].PredicatedStatus = CommitStatusPending

NewWait(name, held, timeout) ==
    [NewOp("waitForCommitsToFinish", name, held, NoInfo, "", "") EXCEPT
        !.deadline = now + timeout]

\* A wait that gives up quietly: at the deadline it returns nil.
WaitPollGivesUp ==
    /\ op.phase = "poll"
    /\ \E fault \in BOOLEAN :
          IF ~(now < op.deadline)
          THEN /\ op' = [op EXCEPT !.phase = "done", !.err = "ok"]
               /\ UNCHANGED now
          ELSE IF fault
          THEN /\ op' = [op EXCEPT !.phase = "done", !.err = "get-failed"]
               /\ UNCHANGED now
          ELSE IF ~HasActiveCommits(store[op.name])
          THEN /\ op' = [op EXCEPT !.phase = "done", !.err = "ok",
                                   !.latest = store[op.name]]
               /\ UNCHANGED now
          ELSE /\ op' = [op EXCEPT !.polls = @ + 1, !.latest = store[op.name]]
               /\ now' = now + PollInterval
    /\ UNCHANGED <<tool, cfg, pc, list, listKind, idxI, idxJ, devbox, retry, ctxDone, result,
                   failedOn, err, started, visited>>
    /\ UNCHANGED <<store, extWrites>>
    /\ UNCHANGED fileVars
    /\ UNCHANGED orchVars
    /\ UNCHANGED infraVars
    /\ UNCHANGED convVars
    /\ UNCHANGED runVars

\* One round of the loop `for time.Now().Before(deadline)`: the Get fails, or
\* no commit is active and the wait returns nil, or it sleeps one interval;
\* once the deadline is reached the wait returns the timeout error.
WaitPoll ==
    /\ op.phase = "poll"
    /\ \E fault \in BOOLEAN :
          IF ~(now < op.deadline)
          THEN /\ op' = [op EXCEPT !.phase = "done", !.err = "timeout"]
               /\ UNCHANGED now
          ELSE IF fault
          THEN /\ op' = [op EXCEPT !.phase = "done", !.err = "get-failed"]
               /\ UNCHANGED now
          ELSE IF ~HasActiveCommits(store[op.name])
          THEN /\ op' = [op EXCEPT !.phase = "done", !.err = "ok",
                                   !.latest = store[op.name]]
               /\ UNCHANGED now
          ELSE /\ op' = [op EXCEPT !.polls = @ + 1, !.latest = store[op.name]]
               /\ now' = now + PollInterval
    /\ UNCHANGED <<tool, cfg, pc, list, listKind, idxI, idxJ, devbox, retry, ctxDone, result,
                   failedOn, err, started, visited>>
    /\ UNCHANGED <<store, extWrites>>
    /\ UNCHANGED fileVars
    /\ UNCHANGED orchVars
    /\ UNCHANGED infraVars
    /\ UNCHANGED convVars
    /\ UNCHANGED runVars

\* The controller finishes a commit that was in flight while the tool runs.
FinishCommit ==
    /\ result = "running"
    /\ \E n \in DevboxNames :
          /\ HasActiveCommits(store[n])
          /\ store' = [store EXCEPT ![n] =
                          [@ EXCEPT !.rv = @ + 1,
                                    !.commits = [c \in 1..Len(@) |->
                                                    [Status |-> CommitStatusSuccess,
                                                     PredicatedStatus |-> CommitStatusSuccess]]]]
    /\ UNCHANGED <<now, extWrites>>
    /\ UNCHANGED toolVars
    /\ UNCHANGED infraVars
    /\ UNCHANGED convVars
    /\ UNCHANGED runVars

\* RetryConfig, delays in milliseconds.
DefaultRetryConfig == [MaxRetries |-> 3, BaseDelay |-> 100, MaxDelay |-> 5000]

\* A backoff that grows by the base delay instead of doubling.
BackoffDelayLinear(config, attempt) ==
    LET delay == config.BaseDelay * attempt
    IN  IF delay > config.MaxDelay THEN config.MaxDelay ELSE delay

\* The delay before attempt number `attempt` (attempt > 0).
BackoffDelay(config, attempt) ==
    LET delay == config.BaseDelay * (2 ^ (attempt - 1))
    IN  IF delay > config.MaxDelay THEN config.MaxDelay ELSE delay

\* retryWithBackoff: attempt is the loop variable; calls counts the calls of
\* operation() and failures those that returned an error; delays lists the
\* waits it made; allConflicts says every failure so far was a conflict and
\* extSinceFailure that another client wrote the object after a failure.  res is "idle" (no retry
\* loop), "running" (operation() in progress), "waiting" (the backoff
\* select), "ok", "failed" (all attempts used) or "cancelled" (ctx.Err()).
NewRetry(config) ==
    [active |-> TRUE, config |-> config, attempt |-> 0, calls |-> 1, failures |-> 0,
     delays |-> <<>>, allConflicts |-> TRUE, extSinceFailure |-> FALSE, res |-> "running"]

NoRetry == [NewRetry(DefaultRetryConfig) EXCEPT !.active = FALSE, !.res = "idle", !.calls = 0]

\* operation() returned: success ends the loop; a failure on the last attempt
\* ends it with an error; any other failure goes to the backoff wait.
RetryStep ==
    /\ retry.active /\ retry.res = "running" /\ op.phase = "done"
    /\ retry' =
          IF op.err = "ok" THEN [retry EXCEPT !.res = "ok"]
          ELSE LET failed == [retry EXCEPT !.allConflicts = @ /\ op.err = "conflict",
                                           !.failures = @ + 1]
               IN  IF retry.attempt + 1 > retry.config.MaxRetries
                   THEN [failed EXCEPT !.res = "failed"]
                   ELSE [failed EXCEPT !.res = "waiting", !.attempt = @ + 1,
                                       !.delays = Append(@, BackoffDelay(retry.config,
                                                                         retry.attempt + 1))]
    /\ UNCHANGED <<tool, cfg, pc, list, listKind, idxI, idxJ, devbox, op, ctxDone, result,
                   failedOn, err, started, visited>>
    /\ UNCHANGED clusterVars
    /\ UNCHANGED fileVars
    /\ UNCHANGED orchVars
    /\ UNCHANGED infraVars
    /\ UNCHANGED convVars
    /\ UNCHANGED runVars

\* The select of the backoff wait: ctx.Done() ends the loop with ctx.Err(),
\* otherwise the delay elapses and operation() is called again.
RetryWake ==
    /\ retry.active /\ retry.res = "waiting"
    /\ IF ctxDone
       THEN /\ retry' = [retry EXCEPT !.res = "cancelled"]
            /\ UNCHANGED op
       ELSE /\ retry' = [retry EXCEPT !.res = "running", !.calls = @ + 1]
            /\ op' = Restart(op)
    /\ UNCHANGED <<tool, cfg, pc, list, listKind, idxI, idxJ, devbox, ctxDone, result,
                   failedOn, err, started, visited>>
    /\ UNCHANGED clusterVars
    /\ UNCHANGED fileVars
    /\ UNCHANGED orchVars
    /\ UNCHANGED infraVars
    /\ UNCHANGED convVars
    /\ UNCHANGED runVars

\* The call, with its retries if any, has returned to the tool.
Returned ==
    /\ op.phase = "done"
    /\ retry.active => retry.res \in {"ok", "failed", "cancelled"}

Succeeded == IF retry.active THEN retry.res = "ok" ELSE op.err = "ok"

(***************************************************************************)
(* api/v1alpha1: commit history and its conversion to commit records       *)
(***************************************************************************)
ContainerIDs == {"", "c1", "c2"}
Images == {"imgA", "imgB"}
Times == 1..(MaxCommits + 1)

\* CommitHistory (v1alpha1): one commit event of a devbox.
CommitHistory ==
    [ContainerID : ContainerIDs, Image : Images, Time : Times,
     Status : {CommitStatusSuccess, CommitStatusPending},
     Node : {"node1"}, Pod : {"pod1"}]

SeqsUpTo(S, n) == UNION {[1..k -> S] : k \in 0..n}

\* The zero value of a v1alpha2 Devbox (&devboxv1alpha2.Devbox{}).
ZeroDevboxV2 ==
    [APIVersion |-> "", Name |-> "", Namespace |-> "", OwnerReferences |-> <<>>,
     Spec |-> [State |-> "", Image |-> "", StorageLimit |-> ""],
     Status |-> [State |-> "", CommitRecords |-> <<>>, ContentID |-> ""]]

\* transformCommitHistory: one event to one record; BaseImage is left empty.
transformCommitHistory(commitHistory) ==
    [BaseImage |-> "",
     CommitImage |-> commitHistory.Image,
     Node |-> commitHistory.Node,
     GenerateTime |-> commitHistory.Time,
     ScheduleTime |-> commitHistory.Time,
     CommitTime |-> commitHistory.Time,
     CommitStatus |-> commitHistory.Status]

\* The index of the last event of the list that carries the container id: a
\* later map assignment overwrites an earlier one.
LastIndexOf(commitHistories, id) ==
    CHOOSE i \in 1..Len(commitHistories) :
        /\ commitHistories[i].ContainerID = id
        /\ \A j \in (i + 1)..Len(commitHistories) : commitHistories[j].ContainerID # id

\* A conversion that keeps the events without a container id.
transformCommitHistoriesUnfiltered(commitHistories) ==
    LET ids == {commitHistories[i].ContainerID : i \in 1..Len(commitHistories)}
    IN  [id \in ids |-> transformCommitHistory(commitHistories[LastIndexOf(commitHistories, id)])]

\* transformCommitHistories: the record map, keyed by container id, of the
\* events whose container id is not empty, in input order.
transformCommitHistories(commitHistories) ==
    LET ids == {commitHistories[i].ContainerID : i \in 1..Len(commitHistories)} \ {""}
    IN  [id \in ids |-> transformCommitHistory(commitHistories[LastIndexOf(commitHistories, id)])]

\* transformDevboxV1alpha1ToV1alpha2: Spec and Status of dst are replaced
\* wholesale; ContentID is not assigned and keeps its zero value.
transformDevboxV1alpha1ToV1alpha2(s, d) ==
    [d EXCEPT
        !.APIVersion = "devbox.sealos.io/v1alpha2",
        !.Spec = [State |-> s.State, Image |-> s.Image, StorageLimit |-> "10Gi"],
        !.Status = [State |-> s.State,
                    CommitRecords |-> transformCommitHistories(s.CommitHistory),
                    ContentID |-> ""]]

\* dst.ObjectMeta = src.ObjectMeta: name, namespace and the owner references
\* as they are.
CopyObjectMeta(s, d) ==
    [d EXCEPT !.Name = s.Name, !.Namespace = s.Namespace,
              !.OwnerReferences = s.OwnerReferences]

\* (*Devbox).ConvertTo (v1alpha1): copy ObjectMeta, then transform.
ConvertToResult(s, d) == transformDevboxV1alpha1ToV1alpha2(s, CopyObjectMeta(s, d))

\* (*Devbox).ConvertFrom (v1alpha2), on the object of its caller: ObjectMeta
\* is copied; the transformed devbox is assigned to the function's own
\* parameter and never reaches the caller's object.
v1alpha2ConvertFromResult(s, d) == CopyObjectMeta(s, d)

\* The zero value of a v1alpha1 Devbox (&Devbox{}).
ZeroDevboxV1 ==
    [APIVersion |-> "", Name |-> "", Namespace |-> "", OwnerReferences |-> <<>>,
     State |-> "", Image |-> "", CommitHistory |-> <<>>]

\* The orders in which a range over a map with these keys can visit them.
Orderings(keys) ==
    {f \in [1..Cardinality(keys) -> keys] :
        \A i, j \in 1..Cardinality(keys) : i # j => f[i] # f[j]}

\* transformCommitRecords: one history event per record, in the order of the
\* range over the map; Pod is left empty and PredicatedStatus repeats the
\* record's status.
transformCommitRecords(commitRecords, order) ==
    [i \in 1..Len(order) |->
        [Image |-> commitRecords[order[i]].CommitImage,
         Time |-> commitRecords[order[i]].CommitTime,
         Pod |-> "",
         Status |-> commitRecords[order[i]].CommitStatus,
         PredicatedStatus |-> commitRecords[order[i]].CommitStatus,
         Node |-> commitRecords[order[i]].Node,
         ContainerID |-> order[i]]]

\* transformDevboxV1alpha2ToV1alpha1: Spec and Status of dst are replaced
\* wholesale.
transformDevboxV1alpha2ToV1alpha1(s, d, order) ==
    [d EXCEPT
        !.APIVersion = "devbox.sealos.io/v1alpha1",
        !.State = s.Spec.State,
        !.Image = s.Spec.Image,
        !.CommitHistory = transformCommitRecords(s.Status.CommitRecords, order)]

\* A ConvertFrom that does not copy ObjectMeta.
ConvertFromWithoutMeta(s, d, order) ==
    transformDevboxV1alpha2ToV1alpha1(s, d, order)

\* (*Devbox).ConvertFrom (v1alpha1): copy ObjectMeta, then transform.
ConvertFromResult(s, d, order) ==
    transformDevboxV1alpha2ToV1alpha1(s, CopyObjectMeta(s, d), order)

\* The values of the variables a program does not use.
IdleConv ==
    /\ src = [Name |-> "", Namespace |-> "", OwnerReferences |-> <<>>, State |-> "",
              Image |-> "", CommitHistory |-> <<>>]
    /\ dst = ZeroDevboxV2
    /\ convPc = "idle"
    /\ back = ZeroDevboxV1

IdleCluster ==
    /\ store = [n \in Names |-> NoObject]
    /\ now = 0
    /\ extWrites = 0
    /\ controller = ""
    /\ crds = <<>>
    /\ backups = {}

IdleTool ==
    /\ tool = ""
    /\ cfg = [DryRun |-> FALSE]
    /\ pc = "idle"
    /\ list = <<>>
    /\ listKind = ""
    /\ idxI = 0
    /\ idxJ = 0
    /\ devbox = NoObject
    /\ op = NoOp
    /\ retry = NoRetry
    /\ ctxDone = FALSE
    /\ result = ""
    /\ failedOn = ""
    /\ err = ""
    /\ started = {}
    /\ visited = {}
    /\ backupStates = <<>>
    /\ backupFile = <<>>
    /\ operationID = ""
    /\ step = 0
    /\ phaseLog = <<>>
    /\ run = 1
    /\ writes = 0

ConvInit ==
    /\ src \in [Name : {"chisel", "gopher"}, Namespace : {"ns1"}, OwnerReferences : {<<>>},
                State : {"Running", "Stopped"},
                Image : {"base"}, CommitHistory : SeqsUpTo(CommitHistory, MaxCommits)]
    /\ dst = ZeroDevboxV2
    /\ convPc = "input"
    /\ back = ZeroDevboxV1
    /\ IdleCluster
    /\ IdleTool

ConvertTo ==
    /\ convPc = "input"
    /\ dst' = ConvertToResult(src, dst)
    /\ convPc' = "converted"
    /\ UNCHANGED <<src, back>>
    /\ UNCHANGED clusterVars
    /\ UNCHANGED toolVars
    /\ UNCHANGED infraVars

\* (*Devbox).ConvertFrom (v1alpha1) on the hub object ConvertTo filled; the
\* order is the one the range over the record map happens to take.
ConvertFrom ==
    /\ convPc = "converted"
    /\ \E order \in Orderings(DOMAIN dst.Status.CommitRecords) :
          back' = ConvertFromResult(dst, back, order)
    /\ convPc' = "restored"
    /\ UNCHANGED <<src, dst>>
    /\ UNCHANGED clusterVars
    /\ UNCHANGED toolVars
    /\ UNCHANGED infraVars

\* (*Devbox).ConvertFrom (v1alpha2) with the v1alpha1 devbox as its hub.
v1alpha2ConvertFrom ==
    /\ convPc = "input"
    /\ dst' = v1alpha2ConvertFromResult(src, dst)
    /\ convPc' = "converted-by-v1alpha2"
    /\ UNCHANGED <<src, back>>
    /\ UNCHANGED clusterVars
    /\ UNCHANGED toolVars
    /\ UNCHANGED infraVars

ConvNext == ConvertTo \/ ConvertFrom \/ v1alpha2ConvertFrom

SpecConv == ConvInit /\ [][ConvNext]_vars

(***************************************************************************)
(* Claims about the conversion                                             *)
(***************************************************************************)
ValidEvents(commitHistories) ==
    {i \in 1..Len(commitHistories) : commitHistories[i].ContainerID # ""}

\* All container ids are non-empty and distinct, and all times are distinct.
WellFormedHistory(commitHistories) ==
    /\ \A i \in 1..Len(commitHistories) : commitHistories[i].ContainerID # ""
    /\ \A i, j \in 1..Len(commitHistories) :
          i # j => /\ commitHistories[i].ContainerID # commitHistories[j].ContainerID
                   /\ commitHistories[i].Time # commitHistories[j].Time

\* The image the record of event i should be based on: the image of the event
\* immediately before it in time order, or the initial image.
ExpectedBase(commitHistories, i, initialImage) ==
    LET earlier == {j \in ValidEvents(commitHistories) :
                        commitHistories[j].Time < commitHistories[i].Time}
    IN  IF earlier = {} THEN initialImage
        ELSE LET p == CHOOSE j \in earlier :
                        \A k \in earlier : commitHistories[k].Time <= commitHistories[j].Time
             IN  commitHistories[p].Image

\* C1: commit-chain ordering. For N events with non-empty container ids, in
\* any order, the conversion yields N+1 records; the record of the first
\* event in time has BaseImage = initialImage and every later one has the
\* image of the event just before it in time.
C1_CommitChainOrdering ==
    (convPc = "converted" /\ WellFormedHistory(src.CommitHistory)) =>
        LET h == src.CommitHistory
            recs == dst.Status.CommitRecords
        IN  /\ Cardinality(DOMAIN recs) = Len(h) + 1
            /\ \A i \in 1..Len(h) :
                  /\ h[i].ContainerID \in DOMAIN recs
                  /\ recs[h[i].ContainerID].BaseImage = ExpectedBase(h, i, src.Image)

\* The image of the latest valid event, or the initial image.
LatestImage(commitHistories, initialImage) ==
    LET valid == ValidEvents(commitHistories)
    IN  IF valid = {} THEN initialImage
        ELSE LET p == CHOOSE j \in valid :
                        \A k \in valid : commitHistories[k].Time <= commitHistories[j].Time
             IN  commitHistories[p].Image

\* C2: content-key invariant. After ConvertTo, for every input including the
\* empty history, Status.ContentID is non-empty, is a key of CommitRecords,
\* and its record is Pending with an empty CommitImage and BaseImage equal to
\* the image of the latest valid event (or the initial image).
C2_ContentKeyInvariant ==
    convPc = "converted" =>
        LET recs == dst.Status.CommitRecords
            key == dst.Status.ContentID
        IN  /\ key # ""
            /\ key \in DOMAIN recs
            /\ recs[key].CommitStatus = CommitStatusPending
            /\ recs[key].CommitImage = ""
            /\ recs[key].BaseImage = LatestImage(src.CommitHistory, src.Image)

(***************************************************************************)
(* cmd/devbox-transform                                                    *)
(***************************************************************************)
\* The CustomResourceDefinitions before the upgrade: v1alpha1 only.
CRDNames == {"devboxes.devbox.sealos.io", "devboxreleases.devbox.sealos.io"}
InstalledCRD ==
    [v1alpha1 |-> "served", v1alpha2 |-> "absent", storage |-> "v1alpha1",
     storedVersions |-> {"v1alpha1"}]

NoCommits == <<>>
PendingCommit == <<[Status |-> CommitStatusPending, PredicatedStatus |-> ""]>>

\* The cluster a tool starts against: every devbox has one of the given
\* profiles <<Spec.State, Status.CommitHistory>>.
ClusterInit(profiles) ==
    /\ \E pr \in [DevboxNames -> profiles] :
          store = [n \in Names |->
                      IF n \in DevboxNames THEN NewObject("Devbox", n, pr[n][1], pr[n][2])
                      ELSE NewObject("DevBoxRelease", n, "", NoCommits)]
    /\ now = 0
    /\ extWrites = 0
    /\ controller = "present"
    /\ crds = [c \in CRDNames |-> InstalledCRD]
    /\ backups = {}

TransformConfig ==
    [DryRun : BOOLEAN, OnlyDevboxes : BOOLEAN, OnlyReleases : BOOLEAN,
     BatchSize : 1..MaxBatchSize]

ToolInit(name, configs) ==
    /\ tool = name
    /\ cfg \in configs
    /\ pc = "start"
    /\ list = <<>>
    /\ listKind = ""
    /\ idxI = 0
    /\ idxJ = 0
    /\ devbox = NoObject
    /\ op = NoOp
    /\ retry = NoRetry
    /\ ctxDone = FALSE
    /\ result = "running"
    /\ failedOn = ""
    /\ err = ""
    /\ started = {}
    /\ visited = {}
    /\ backupStates = <<>>
    /\ backupFile = <<>>
    /\ operationID = ""
    /\ step = 0
    /\ phaseLog = <<>>
    /\ run = 1
    /\ writes = 0

TransformInit ==
    /\ IdleConv
    /\ ClusterInit({<<DevboxStateStopped, NoCommits>>})
    /\ ToolInit("devbox-transform", TransformConfig)

\* The tool returns: os.Exit(1) on an error, a normal end otherwise.
Finish(res, name, e) ==
    /\ pc' = "done"
    /\ result' = res
    /\ failedOn' = name
    /\ err' = e

\* performTransform: devboxes unless OnlyReleases, then releases unless
\* OnlyDevboxes.
PerformTransform ==
    /\ tool = "devbox-transform" /\ pc = "start"
    /\ IF ~cfg.OnlyReleases THEN /\ listKind' = "Devbox"
                                 /\ pc' = "list"
                                 /\ UNCHANGED <<result, failedOn, err>>
       ELSE IF ~cfg.OnlyDevboxes THEN /\ listKind' = "DevBoxRelease"
                                      /\ pc' = "list"
                                      /\ UNCHANGED <<result, failedOn, err>>
       ELSE /\ Finish("ok", "", "")
            /\ UNCHANGED listKind
    /\ UNCHANGED <<tool, cfg, list, idxI, idxJ, devbox, op, retry, ctxDone, started,
                   visited>>
    /\ UNCHANGED clusterVars
    /\ UNCHANGED fileVars
    /\ UNCHANGED orchVars
    /\ UNCHANGED infraVars
    /\ UNCHANGED convVars
    /\ UNCHANGED runVars

\* transformDevboxes / transformDevboxReleases: the List call.
TransformList ==
    /\ tool = "devbox-transform" /\ pc = "list"
    /\ \E fault \in BOOLEAN :
          IF fault THEN /\ Finish("error", "", "list-failed")
                        /\ UNCHANGED <<list, idxI>>
          ELSE /\ list' = ListOf(listKind)
               /\ idxI' = 0
               /\ pc' = "batch"
               /\ UNCHANGED <<result, failedOn, err>>
    /\ UNCHANGED <<tool, cfg, listKind, idxJ, devbox, op, retry, ctxDone, started,
                   visited>>
    /\ UNCHANGED clusterVars
    /\ UNCHANGED fileVars
    /\ UNCHANGED orchVars
    /\ UNCHANGED infraVars
    /\ UNCHANGED convVars
    /\ UNCHANGED runVars

\* The head of the batch loop: for i := 0; i < len(items); i += BatchSize.
\* When it ends the function returns nil and performTransform goes on.
TransformBatch ==
    /\ tool = "devbox-transform" /\ pc = "batch"
    /\ IF idxI < Len(list) THEN /\ idxJ' = idxI
                                /\ pc' = "item"
                                /\ UNCHANGED <<listKind, result, failedOn, err>>
       ELSE IF listKind = "Devbox" /\ ~cfg.OnlyDevboxes
       THEN /\ listKind' = "DevBoxRelease"
            /\ pc' = "list"
            /\ UNCHANGED <<idxJ, result, failedOn, err>>
       ELSE /\ Finish("ok", "", "")
            /\ UNCHANGED <<idxJ, listKind>>
    /\ UNCHANGED <<tool, cfg, list, idxI, devbox, op, retry, ctxDone, started,
                   visited>>
    /\ UNCHANGED clusterVars
    /\ UNCHANGED fileVars
    /\ UNCHANGED orchVars
    /\ UNCHANGED infraVars
    /\ UNCHANGED convVars
    /\ UNCHANGED runVars

\* Go's int, scaled down: the values from IntMin to IntMax, and an addition
\* that wraps around as the machine's does.
IntMax == 2 * (MaxDevboxes + MaxBatchSize)
IntMin == -IntMax - 1
WrapInt(x) ==
    IF x > IntMax THEN x - (IntMax - IntMin + 1)
    ELSE IF x < IntMin THEN x + (IntMax - IntMin + 1)
    ELSE x

BatchEnd ==
    IF WrapInt(idxI + cfg.BatchSize) > Len(list) THEN Len(list)
    ELSE WrapInt(idxI + cfg.BatchSize)

\* The head of the item loop: for j := i; j < end; j++.  Items[j] with a
\* negative j is an index out of range, a run-time panic.  A dry run only
\* logs; otherwise retryWithBackoff(forceStorageVersionUpdate) is started.
TransformItem ==
    /\ tool = "devbox-transform" /\ pc = "item"
    /\ IF idxJ < BatchEnd
       THEN IF idxJ < 0
            THEN /\ Finish("panic", "", "index-out-of-range")
                 /\ UNCHANGED <<idxI, idxJ, devbox, op, retry, started, visited>>
            ELSE IF cfg.DryRun
            THEN /\ idxJ' = idxJ + 1
                 /\ visited' = visited \cup {list[idxJ + 1].name}
                 /\ UNCHANGED <<idxI, pc, devbox, op, retry, started>>
                 /\ UNCHANGED <<result, failedOn, err>>
            ELSE /\ devbox' = list[idxJ + 1]
                 /\ op' = NewOp("forceStorageVersionUpdate", list[idxJ + 1].name,
                                list[idxJ + 1], NoInfo, "", "")
                 /\ retry' = NewRetry(DefaultRetryConfig)
                 /\ started' = started \cup {<<"transform", list[idxJ + 1].name>>}
                 /\ visited' = visited \cup {list[idxJ + 1].name}
                 /\ pc' = "forcing"
                 /\ UNCHANGED <<idxI, idxJ>>
                 /\ UNCHANGED <<result, failedOn, err>>
       ELSE /\ idxI' = WrapInt(idxI + cfg.BatchSize)
            /\ pc' = "batch"
            /\ UNCHANGED <<idxJ, devbox, op, retry, started, visited>>
            /\ UNCHANGED <<result, failedOn, err>>
    /\ UNCHANGED <<tool, cfg, list, listKind, ctxDone>>
    /\ UNCHANGED fileVars
    /\ UNCHANGED clusterVars
    /\ UNCHANGED orchVars
    /\ UNCHANGED infraVars
    /\ UNCHANGED convVars
    /\ UNCHANGED runVars

\* retryWithBackoff(transformOperation) returned: on an error the status
\* annotation is set to failed, otherwise to completed, each under its own
\* retryWithBackoff.
TransformForced ==
    /\ tool = "devbox-transform" /\ pc = "forcing" /\ Returned
    /\ op' = NewOp("UpdateUpgradeAnnotation", devbox.name, devbox, NoInfo,
                   AnnotationUpgradeStatus,
                   IF Succeeded THEN UpgradeStatusCompleted ELSE UpgradeStatusFailed)
    /\ retry' = NewRetry(DefaultRetryConfig)
    /\ pc' = IF Succeeded THEN "marking" ELSE "failing"
    /\ failedOn' = IF Succeeded THEN failedOn ELSE devbox.name
    /\ err' = IF Succeeded THEN err ELSE op.err
    /\ UNCHANGED <<tool, cfg, list, listKind, idxI, idxJ, devbox, ctxDone, result, started, visited>>
    /\ UNCHANGED clusterVars
    /\ UNCHANGED fileVars
    /\ UNCHANGED orchVars
    /\ UNCHANGED infraVars
    /\ UNCHANGED convVars
    /\ UNCHANGED runVars

\* The completed annotation returned (an error is only logged): next item.
TransformMarked ==
    /\ tool = "devbox-transform" /\ pc = "marking" /\ Returned
    /\ idxJ' = idxJ + 1
    /\ pc' = "item"
    /\ UNCHANGED <<tool, cfg, list, listKind, idxI, devbox, op, retry, ctxDone, result,
                   failedOn, err, started, visited>>
    /\ UNCHANGED clusterVars
    /\ UNCHANGED fileVars
    /\ UNCHANGED orchVars
    /\ UNCHANGED infraVars
    /\ UNCHANGED convVars
    /\ UNCHANGED runVars

\* A transform loop that marks the failed resource and goes on to the next.
TransformFailedSkips ==
    /\ tool = "devbox-transform" /\ pc = "failing" /\ Returned
    /\ idxJ' = idxJ + 1
    /\ pc' = "item"
    /\ UNCHANGED <<tool, cfg, list, listKind, idxI, devbox, op, retry, ctxDone, result,
                   failedOn, err, started, visited>>
    /\ UNCHANGED clusterVars
    /\ UNCHANGED fileVars
    /\ UNCHANGED orchVars
    /\ UNCHANGED infraVars
    /\ UNCHANGED convVars
    /\ UNCHANGED runVars

\* The failed annotation returned (an error is only logged): return err.
TransformFailed ==
    /\ tool = "devbox-transform" /\ pc = "failing" /\ Returned
    /\ Finish("error", failedOn, err)
    /\ UNCHANGED <<tool, cfg, list, listKind, idxI, idxJ, devbox, op, retry, ctxDone, started, visited>>
    /\ UNCHANGED clusterVars
    /\ UNCHANGED fileVars
    /\ UNCHANGED orchVars
    /\ UNCHANGED infraVars
    /\ UNCHANGED convVars
    /\ UNCHANGED runVars

TransformNext ==
    \/ PerformTransform
    \/ TransformList
    \/ TransformBatch
    \/ TransformItem
    \/ TransformForced
    \/ TransformMarked
    \/ TransformFailed
    \/ OpGet
    \/ OpUpdate
    \/ RetryStep
    \/ RetryWake
    \/ ExtWrite

SpecTransform == TransformInit /\ [][TransformNext]_vars

(***************************************************************************)
(* cmd/devbox-stop                                                         *)
(***************************************************************************)
UpgradeStepStop == "stop"
UpgradeStatusStopped == "stopped"
UpgradeVersion == "v1alpha1-to-v1alpha2"

DevboxStopConfig == [DryRun : BOOLEAN]

\* DevboxBackupState: what a tool records of a devbox before it touches it.
DevboxBackupState(d, id, t) ==
    [Name |-> d.name, State |-> d.state, OperationID |-> id, BackupTime |-> t]

StopInit ==
    /\ IdleConv
    /\ ClusterInit({<<DevboxStateRunning, NoCommits>>, <<DevboxStateStopped, NoCommits>>})
    /\ ToolInit("devbox-stop", DevboxStopConfig)

\* stopAllDevboxes up to the loop: the backup directory (not in a dry run),
\* the List call, the operation id.
StopList ==
    /\ tool = "devbox-stop" /\ pc = "start"
    /\ \E fault \in BOOLEAN :
          IF fault THEN /\ Finish("error", "", "list-failed")
                        /\ UNCHANGED <<list, listKind, idxI, operationID>>
          ELSE /\ list' = ListOf("Devbox")
               /\ listKind' = "Devbox"
               /\ idxI' = 0
               /\ operationID' = "stop-" \o ToString(now)
               /\ pc' = "item"
               /\ UNCHANGED <<result, failedOn, err>>
    /\ UNCHANGED <<tool, cfg, idxJ, devbox, op, retry, ctxDone, started, visited,
                   backupStates, backupFile>>
    /\ UNCHANGED clusterVars
    /\ UNCHANGED orchVars
    /\ UNCHANGED infraVars
    /\ UNCHANGED convVars
    /\ UNCHANGED runVars

\* The head of the loop over the items.  An item's backup state is recorded;
\* a dry run goes on to the next item, otherwise AddUpgradeAnnotations is
\* called.  After the last item the backup states are saved (not in a dry
\* run) and the tool returns.
StopItem ==
    /\ tool = "devbox-stop" /\ pc = "item"
    /\ IF idxI < Len(list)
       THEN LET item == list[idxI + 1]
            IN  /\ backupStates' = Append(backupStates,
                                          DevboxBackupState(item, operationID, now))
                /\ visited' = visited \cup {item.name}
                /\ devbox' = item
                /\ IF cfg.DryRun
                   THEN /\ idxI' = idxI + 1
                        /\ UNCHANGED <<pc, op, retry>>
                   ELSE /\ op' = NewOp("AddUpgradeAnnotations", item.name, item,
                                       [UpgradeInfo(operationID, UpgradeStepStop,
                                                    UpgradeStatusInProgress, item.state)
                                            EXCEPT !.Version = UpgradeVersion], "", "")
                        /\ retry' = NoRetry
                        /\ pc' = "annotating"
                        /\ UNCHANGED idxI
                /\ UNCHANGED <<backupFile, result, failedOn, err>>
       ELSE /\ \E fault \in BOOLEAN :
                  IF cfg.DryRun THEN /\ Finish("ok", "", "")
                                     /\ UNCHANGED backupFile
                  ELSE IF fault THEN /\ Finish("error", "", "save-failed")
                                     /\ UNCHANGED backupFile
                  ELSE /\ Finish("ok", "", "")
                       /\ backupFile' = backupStates
            /\ UNCHANGED <<idxI, devbox, op, retry, backupStates, visited>>
    /\ UNCHANGED <<tool, cfg, list, listKind, idxJ, ctxDone, started, operationID>>
    /\ UNCHANGED clusterVars
    /\ UNCHANGED orchVars
    /\ UNCHANGED infraVars
    /\ UNCHANGED convVars
    /\ UNCHANGED runVars

\* AddUpgradeAnnotations returned: an error ends the run; otherwise the
\* devbox is fetched again.
StopAnnotated ==
    /\ tool = "devbox-stop" /\ pc = "annotating" /\ Returned
    /\ IF Succeeded
       THEN /\ op' = NewOp("Get", devbox.name, devbox, NoInfo, "", "")
            /\ pc' = "getting"
            /\ UNCHANGED <<result, failedOn, err>>
       ELSE /\ Finish("error", devbox.name, op.err)
            /\ UNCHANGED op
    /\ UNCHANGED <<tool, cfg, list, listKind, idxI, idxJ, devbox, retry, ctxDone, started,
                   visited>>
    /\ UNCHANGED fileVars
    /\ UNCHANGED clusterVars
    /\ UNCHANGED orchVars
    /\ UNCHANGED infraVars
    /\ UNCHANGED convVars
    /\ UNCHANGED runVars

\* The Get returned.  A running devbox is set to Stopped and written with
\* retryWithBackoff(k8sClient.Update(ctx, devbox)); any other devbox only
\* gets its status annotation.
StopGot ==
    /\ tool = "devbox-stop" /\ pc = "getting" /\ Returned
    /\ IF ~Succeeded
       THEN /\ Finish("error", devbox.name, op.err)
            /\ UNCHANGED <<devbox, op, retry, started>>
       ELSE IF op.latest.state = DevboxStateRunning
       THEN /\ devbox' = [op.latest EXCEPT !.state = DevboxStateStopped]
            /\ op' = NewOp("Update", devbox.name, devbox', NoInfo, "", "")
            /\ retry' = NewRetry(DefaultRetryConfig)
            /\ started' = started \cup {<<"stop", devbox.name>>}
            /\ pc' = "stopping"
            /\ UNCHANGED <<result, failedOn, err>>
       ELSE /\ devbox' = op.latest
            /\ op' = NewOp("UpdateUpgradeAnnotation", devbox.name, devbox', NoInfo,
                           AnnotationUpgradeStatus, UpgradeStatusStopped)
            /\ retry' = NewRetry(DefaultRetryConfig)
            /\ pc' = "marking"
            /\ UNCHANGED <<started, result, failedOn, err>>
    /\ UNCHANGED <<tool, cfg, list, listKind, idxI, idxJ, ctxDone, visited>>
    /\ UNCHANGED fileVars
    /\ UNCHANGED clusterVars
    /\ UNCHANGED orchVars
    /\ UNCHANGED infraVars
    /\ UNCHANGED convVars
    /\ UNCHANGED runVars

\* retryWithBackoff(updateOperation) returned: the status annotation is set
\* to stopped, or to failed on an error, each under retryWithBackoff.
StopWritten ==
    /\ tool = "devbox-stop" /\ pc = "stopping" /\ Returned
    /\ devbox' = IF Succeeded THEN op.latest ELSE devbox
    /\ op' = NewOp("UpdateUpgradeAnnotation", devbox.name, devbox', NoInfo,
                   AnnotationUpgradeStatus,
                   IF Succeeded THEN UpgradeStatusStopped ELSE UpgradeStatusFailed)
    /\ retry' = NewRetry(DefaultRetryConfig)
    /\ pc' = IF Succeeded THEN "marking" ELSE "failing"
    /\ failedOn' = IF Succeeded THEN failedOn ELSE devbox.name
    /\ err' = IF Succeeded THEN err ELSE op.err
    /\ UNCHANGED <<tool, cfg, list, listKind, idxI, idxJ, ctxDone, result, started, visited>>
    /\ UNCHANGED fileVars
    /\ UNCHANGED clusterVars
    /\ UNCHANGED orchVars
    /\ UNCHANGED infraVars
    /\ UNCHANGED convVars
    /\ UNCHANGED runVars

\* The stopped annotation returned (an error is only logged): next item.
StopMarked ==
    /\ tool = "devbox-stop" /\ pc = "marking" /\ Returned
    /\ idxI' = idxI + 1
    /\ pc' = "item"
    /\ UNCHANGED <<tool, cfg, list, listKind, idxJ, devbox, op, retry, ctxDone, result,
                   failedOn, err, started, visited>>
    /\ UNCHANGED fileVars
    /\ UNCHANGED clusterVars
    /\ UNCHANGED orchVars
    /\ UNCHANGED infraVars
    /\ UNCHANGED convVars
    /\ UNCHANGED runVars

\* The failed annotation returned (an error is only logged): return the error.
StopFailed ==
    /\ tool = "devbox-stop" /\ pc = "failing" /\ Returned
    /\ Finish("error", failedOn, err)
    /\ UNCHANGED <<tool, cfg, list, listKind, idxI, idxJ, devbox, op, retry, ctxDone, started,
                   visited>>
    /\ UNCHANGED fileVars
    /\ UNCHANGED clusterVars
    /\ UNCHANGED orchVars
    /\ UNCHANGED infraVars
    /\ UNCHANGED convVars
    /\ UNCHANGED runVars

StopNext ==
    \/ StopList
    \/ StopItem
    \/ StopAnnotated
    \/ StopGot
    \/ StopWritten
    \/ StopMarked
    \/ StopFailed
    \/ OpGet
    \/ OpUpdate
    \/ RetryStep
    \/ RetryWake
    \/ ExtWrite

SpecStop == StopInit /\ [][StopNext]_vars

(***************************************************************************)
(* cmd/devbox-pause                                                        *)
(***************************************************************************)
MaxWaitPolls == 2

PauseConfig ==
    [DryRun : BOOLEAN, PauseController : BOOLEAN, OnlyDevboxes : BOOLEAN,
     OnlyController : BOOLEAN, CommitTimeout : {0, MaxWaitPolls * PollInterval}]

DevboxProfiles ==
    {<<DevboxStateRunning, NoCommits>>, <<DevboxStateRunning, PendingCommit>>,
     <<DevboxStateStopped, NoCommits>>}

PauseInit ==
    /\ IdleConv
    /\ ClusterInit(DevboxProfiles)
    /\ ToolInit("devbox-pause", PauseConfig)

\* pauseController: nothing in a dry run; a deployment that is not found
\* counts as paused; otherwise it is saved to a file and deleted.  The error
\* it returns, "ok" for nil.
pauseControllerErr(dryRun, outcome) ==
    IF dryRun THEN "ok"
    ELSE IF outcome = "get-failed" THEN outcome
    ELSE IF controller = "deleted" THEN "ok"
    ELSE outcome

pauseControllerWrites(dryRun, outcome) ==
    IF dryRun \/ outcome = "get-failed" \/ controller = "deleted" \/ outcome = "save-failed"
    THEN UNCHANGED <<controller, backups>>
    ELSE /\ backups' = backups \cup {"controller_deployment.yaml"}
         /\ controller' = IF outcome = "ok" THEN "deleted" ELSE controller

ControllerOutcomes == {"get-failed", "save-failed", "delete-failed", "ok"}

\* performPause: the backup directory (not in a dry run), then the devboxes
\* unless OnlyController, then the controller.
PerformPause ==
    /\ tool = "devbox-pause" /\ pc = "start"
    /\ \E fault \in BOOLEAN :
          IF ~cfg.DryRun /\ fault
          THEN Finish("error", "", "mkdir-failed")
          ELSE /\ pc' = IF ~cfg.OnlyController THEN "list" ELSE "controller"
               /\ UNCHANGED <<result, failedOn, err>>
    /\ UNCHANGED <<tool, cfg, list, listKind, idxI, idxJ, devbox, op, retry, ctxDone, started,
                   visited>>
    /\ UNCHANGED fileVars
    /\ UNCHANGED orchVars
    /\ UNCHANGED infraVars
    /\ UNCHANGED clusterVars
    /\ UNCHANGED convVars
    /\ UNCHANGED runVars

\* pauseAllDevboxes up to the loop: the List call and the operation id.
PauseList ==
    /\ tool = "devbox-pause" /\ pc = "list"
    /\ \E fault \in BOOLEAN :
          IF fault THEN /\ Finish("error", "", "list-failed")
                        /\ UNCHANGED <<list, listKind, idxI, operationID>>
          ELSE /\ list' = ListOf("Devbox")
               /\ listKind' = "Devbox"
               /\ idxI' = 0
               /\ operationID' = "pause-" \o ToString(now)
               /\ pc' = "item"
               /\ UNCHANGED <<result, failedOn, err>>
    /\ UNCHANGED <<tool, cfg, idxJ, devbox, op, retry, ctxDone, started, visited,
                   backupStates, backupFile>>
    /\ UNCHANGED orchVars
    /\ UNCHANGED infraVars
    /\ UNCHANGED clusterVars
    /\ UNCHANGED convVars
    /\ UNCHANGED runVars

\* The head of the loop over the items, as in devbox-stop but with the pause
\* step.  After the last item the backup states are saved (not in a dry run)
\* and performPause goes on to the controller.
PauseItem ==
    /\ tool = "devbox-pause" /\ pc = "item"
    /\ IF idxI < Len(list)
       THEN LET item == list[idxI + 1]
            IN  /\ backupStates' = Append(backupStates,
                                          DevboxBackupState(item, operationID, now))
                /\ visited' = visited \cup {item.name}
                /\ devbox' = item
                /\ IF cfg.DryRun
                   THEN /\ idxI' = idxI + 1
                        /\ UNCHANGED <<pc, op, retry>>
                   ELSE /\ op' = NewOp("AddUpgradeAnnotations", item.name, item,
                                       [UpgradeInfo(operationID, UpgradeStepPause,
                                                    UpgradeStatusInProgress, item.state)
                                            EXCEPT !.Version = UpgradeVersion], "", "")
                        /\ retry' = NoRetry
                        /\ pc' = "annotating"
                        /\ UNCHANGED idxI
                /\ UNCHANGED <<backupFile, result, failedOn, err>>
       ELSE /\ \E fault \in BOOLEAN :
                  IF ~cfg.DryRun /\ fault
                  THEN /\ Finish("error", "", "save-failed")
                       /\ UNCHANGED backupFile
                  ELSE /\ backupFile' = IF cfg.DryRun THEN backupFile ELSE backupStates
                       /\ IF cfg.PauseController /\ ~cfg.OnlyDevboxes
                          THEN /\ pc' = "controller"
                               /\ UNCHANGED <<result, failedOn, err>>
                          ELSE Finish("ok", "", "")
            /\ UNCHANGED <<idxI, devbox, op, retry, backupStates, visited>>
    /\ UNCHANGED <<tool, cfg, list, listKind, idxJ, ctxDone, started, operationID>>
    /\ UNCHANGED orchVars
    /\ UNCHANGED infraVars
    /\ UNCHANGED clusterVars
    /\ UNCHANGED convVars
    /\ UNCHANGED runVars

\* AddUpgradeAnnotations returned: an error ends the run.  A devbox that was
\* listed as Running waits for its commits; any other devbox only gets the
\* paused annotation.
PauseAnnotated ==
    /\ tool = "devbox-pause" /\ pc = "annotating" /\ Returned
    /\ IF ~Succeeded
       THEN /\ Finish("error", devbox.name, op.err)
            /\ UNCHANGED op
       ELSE IF devbox.state = DevboxStateRunning
       THEN /\ op' = NewWait(devbox.name, devbox, cfg.CommitTimeout)
            /\ pc' = "waiting"
            /\ UNCHANGED <<result, failedOn, err>>
       ELSE /\ op' = NewOp("UpdateUpgradeAnnotation", devbox.name, devbox, NoInfo,
                           AnnotationUpgradeStatus, UpgradeStatusPaused)
            /\ pc' = "marking"
            /\ UNCHANGED <<result, failedOn, err>>
    /\ UNCHANGED <<tool, cfg, list, listKind, idxI, idxJ, devbox, retry, ctxDone, started,
                   visited>>
    /\ UNCHANGED fileVars
    /\ UNCHANGED orchVars
    /\ UNCHANGED infraVars
    /\ UNCHANGED clusterVars
    /\ UNCHANGED convVars
    /\ UNCHANGED runVars

\* waitForCommitsToFinish returned.  On an error the failed annotation is
\* written and the error returned; otherwise the listed devbox is set to
\* Stopped and sent with one k8sClient.Update.
PauseWaited ==
    /\ tool = "devbox-pause" /\ pc = "waiting" /\ Returned
    /\ IF Succeeded
       THEN /\ devbox' = [devbox EXCEPT !.state = DevboxStateStopped]
            /\ op' = NewOp("Update", devbox.name, devbox', NoInfo, "", "")
            /\ started' = started \cup {<<"stop", devbox.name>>}
            /\ pc' = "stopping"
            /\ UNCHANGED <<failedOn, err>>
       ELSE /\ op' = NewOp("UpdateUpgradeAnnotation", devbox.name, devbox, NoInfo,
                           AnnotationUpgradeStatus, UpgradeStatusFailed)
            /\ failedOn' = devbox.name
            /\ err' = op.err
            /\ pc' = "failing"
            /\ UNCHANGED <<devbox, started>>
    /\ UNCHANGED <<tool, cfg, list, listKind, idxI, idxJ, retry, ctxDone, result, visited>>
    /\ UNCHANGED fileVars
    /\ UNCHANGED orchVars
    /\ UNCHANGED infraVars
    /\ UNCHANGED clusterVars
    /\ UNCHANGED convVars
    /\ UNCHANGED runVars

\* k8sClient.Update(ctx, devbox) returned: the paused annotation, or on an
\* error the failed annotation and the error.
PauseWritten ==
    /\ tool = "devbox-pause" /\ pc = "stopping" /\ Returned
    /\ devbox' = IF Succeeded THEN op.latest ELSE devbox
    /\ op' = NewOp("UpdateUpgradeAnnotation", devbox.name, devbox', NoInfo,
                   AnnotationUpgradeStatus,
                   IF Succeeded THEN UpgradeStatusPaused ELSE UpgradeStatusFailed)
    /\ pc' = IF Succeeded THEN "marking" ELSE "failing"
    /\ failedOn' = IF Succeeded THEN failedOn ELSE devbox.name
    /\ err' = IF Succeeded THEN err ELSE op.err
    /\ UNCHANGED <<tool, cfg, list, listKind, idxI, idxJ, retry, ctxDone, result, started,
                   visited>>
    /\ UNCHANGED fileVars
    /\ UNCHANGED orchVars
    /\ UNCHANGED infraVars
    /\ UNCHANGED clusterVars
    /\ UNCHANGED convVars
    /\ UNCHANGED runVars

\* The paused annotation returned (an error is only logged): next item.
PauseMarked ==
    /\ tool = "devbox-pause" /\ pc = "marking" /\ Returned
    /\ idxI' = idxI + 1
    /\ pc' = "item"
    /\ UNCHANGED <<tool, cfg, list, listKind, idxJ, devbox, op, retry, ctxDone, result,
                   failedOn, err, started, visited>>
    /\ UNCHANGED fileVars
    /\ UNCHANGED orchVars
    /\ UNCHANGED infraVars
    /\ UNCHANGED clusterVars
    /\ UNCHANGED convVars
    /\ UNCHANGED runVars

\* The failed annotation returned (an error is only logged): return the error.
PauseFailed ==
    /\ tool = "devbox-pause" /\ pc = "failing" /\ Returned
    /\ Finish("error", failedOn, err)
    /\ UNCHANGED <<tool, cfg, list, listKind, idxI, idxJ, devbox, op, retry, ctxDone, started,
                   visited>>
    /\ UNCHANGED fileVars
    /\ UNCHANGED orchVars
    /\ UNCHANGED infraVars
    /\ UNCHANGED clusterVars
    /\ UNCHANGED convVars
    /\ UNCHANGED runVars

\* pauseController, then performPause returns.
PauseController ==
    /\ tool = "devbox-pause" /\ pc = "controller"
    /\ \E outcome \in ControllerOutcomes :
          /\ pauseControllerWrites(cfg.DryRun, outcome)
          /\ IF pauseControllerErr(cfg.DryRun, outcome) = "ok"
             THEN Finish("ok", "", "")
             ELSE Finish("error", "", pauseControllerErr(cfg.DryRun, outcome))
    /\ UNCHANGED <<tool, cfg, list, listKind, idxI, idxJ, devbox, op, retry, ctxDone, started,
                   visited>>
    /\ UNCHANGED crds
    /\ UNCHANGED fileVars
    /\ UNCHANGED orchVars
    /\ UNCHANGED clusterVars
    /\ UNCHANGED convVars
    /\ UNCHANGED runVars

PauseNext ==
    \/ PerformPause
    \/ PauseList
    \/ PauseItem
    \/ PauseAnnotated
    \/ PauseWaited
    \/ PauseWritten
    \/ PauseMarked
    \/ PauseFailed
    \/ PauseController
    \/ OpGet
    \/ OpUpdate
    \/ WaitPoll
    \/ FinishCommit
    \/ ExtWrite

SpecPause == PauseInit /\ [][PauseNext]_vars

(***************************************************************************)
(* cmd/upgrade: the orchestrator                                           *)
(***************************************************************************)
UpgradeConfig ==
    [DryRun : BOOLEAN, SkipBackup : BOOLEAN, SkipPause : BOOLEAN, OnlyBackup : BOOLEAN,
     OnlyPause : BOOLEAN, OnlyTransform : BOOLEAN]

\* The wait of the upgrade tool has a fixed timeout (5 minutes in the code,
\* MaxWaitPolls poll intervals here).
UpgradeCommitTimeout == MaxWaitPolls * PollInterval

\* The numbered steps of performUpgrade and the phase each belongs to.
LastStep == 6
StepPhase(k) ==
    CASE k = 1 -> "Backup"
      [] k = 2 -> "Pause"
      [] k = 3 -> "PauseController"
      [] k = 4 -> "SchemaUpdate"
      [] k = 5 -> "Transform"
      [] OTHER -> "Finalize"

\* The condition under which performUpgrade runs a step.
StepEnabled(k, c) ==
    CASE k = 1 -> ~c.SkipBackup /\ ~c.OnlyPause /\ ~c.OnlyTransform
      [] k = 2 -> ~c.SkipPause /\ ~c.OnlyBackup /\ ~c.OnlyTransform
      [] k = 5 -> ~c.OnlyBackup /\ ~c.OnlyPause
      [] OTHER -> ~c.OnlyBackup /\ ~c.OnlyPause /\ ~c.OnlyTransform

\* The steps after which performUpgrade returns nil at once.
ReturnsAfter(k, c) ==
    \/ k = 1 /\ c.OnlyBackup
    \/ k = 2 /\ c.OnlyPause
    \/ k = 5 /\ c.OnlyTransform

StepEntry(k) ==
    CASE k = 1 -> "backup"
      [] k = 2 -> "list"
      [] k = 3 -> "controller"
      [] k = 4 -> "crds"
      [] k = 5 -> "tlist"
      [] OTHER -> "finalize"

UpgradeInit ==
    /\ IdleConv
    /\ ClusterInit(DevboxProfiles)
    /\ tool = "upgrade"
    /\ cfg \in UpgradeConfig
    /\ pc = "dispatch"
    /\ list = <<>>
    /\ listKind = ""
    /\ idxI = 0
    /\ idxJ = 0
    /\ devbox = NoObject
    /\ op = NoOp
    /\ retry = NoRetry
    /\ ctxDone = FALSE
    /\ result = "running"
    /\ failedOn = ""
    /\ err = ""
    /\ started = {}
    /\ visited = {}
    /\ backupStates = <<>>
    /\ backupFile = <<>>
    /\ operationID = ""
    /\ step = 1
    /\ phaseLog = <<>>
    /\ run = 1
    /\ writes = 0

\* A step's function returns to performUpgrade.
PhaseEnds(res) ==
    /\ pc' = "returned"
    /\ phaseLog' = Append(phaseLog, <<StepPhase(step), res>>)

\* performUpgrade at the head of a step: a step whose condition is false is
\* passed over; after the last step it returns nil.
PerformUpgrade ==
    /\ tool = "upgrade" /\ pc = "dispatch"
    /\ IF step > LastStep
       THEN /\ Finish("ok", "", "")
            /\ UNCHANGED <<step, phaseLog>>
       ELSE IF StepEnabled(step, cfg)
       THEN /\ pc' = StepEntry(step)
            /\ phaseLog' = Append(phaseLog, <<StepPhase(step), "start">>)
            /\ UNCHANGED <<step, result, failedOn, err>>
       ELSE /\ step' = step + 1
            /\ UNCHANGED <<pc, phaseLog, result, failedOn, err>>
    /\ UNCHANGED <<tool, cfg, list, listKind, idxI, idxJ, devbox, op, retry, ctxDone, started,
                   visited>>
    /\ UNCHANGED fileVars
    /\ UNCHANGED infraVars
    /\ UNCHANGED clusterVars
    /\ UNCHANGED convVars
    /\ UNCHANGED runVars

\* A performUpgrade that logs a step's error and goes on to the next step.
UpgradeReturnedKeepsGoing ==
    /\ tool = "upgrade" /\ pc = "returned"
    /\ IF ReturnsAfter(step, cfg)
       THEN /\ Finish("ok", "", "")
            /\ UNCHANGED step
       ELSE /\ step' = step + 1
            /\ pc' = "dispatch"
            /\ UNCHANGED <<result, failedOn, err>>
    /\ UNCHANGED <<tool, cfg, list, listKind, idxI, idxJ, devbox, op, retry, ctxDone, started,
                   visited, phaseLog>>
    /\ UNCHANGED fileVars
    /\ UNCHANGED infraVars
    /\ UNCHANGED clusterVars
    /\ UNCHANGED convVars
    /\ UNCHANGED runVars

\* A step's function has returned: an error is returned at once, and so is
\* nil after the step an only-flag names; otherwise the next step.
UpgradeReturned ==
    /\ tool = "upgrade" /\ pc = "returned"
    /\ IF phaseLog[Len(phaseLog)][2] = "error"
       THEN /\ Finish("error", failedOn, err)
            /\ UNCHANGED step
       ELSE IF ReturnsAfter(step, cfg)
       THEN /\ Finish("ok", "", "")
            /\ UNCHANGED step
       ELSE /\ step' = step + 1
            /\ pc' = "dispatch"
            /\ UNCHANGED <<result, failedOn, err>>
    /\ UNCHANGED <<tool, cfg, list, listKind, idxI, idxJ, devbox, op, retry, ctxDone, started,
                   visited, phaseLog>>
    /\ UNCHANGED fileVars
    /\ UNCHANGED infraVars
    /\ UNCHANGED clusterVars
    /\ UNCHANGED convVars
    /\ UNCHANGED runVars

\* The files backupCRAndCRD writes, in the order it writes them.
RECURSIVE SeqOfNames(_, _, _)
SeqOfNames(prefix, Name(_), n) ==
    IF n = 0 THEN <<>> ELSE Append(SeqOfNames(prefix, Name, n - 1), prefix \o Name(n) \o ".yaml")

BackupFileList ==
    <<"devboxes_crd.yaml", "devboxreleases_crd.yaml">>
        \o SeqOfNames("devbox_", DevboxName, MaxDevboxes)
        \o SeqOfNames("devboxrelease_", ReleaseName, MaxReleases)

\* A backupCRAndCRD that writes its files in a dry run too.
UpgradeBackupIgnoresDryRun ==
    /\ tool = "upgrade" /\ pc = "backup"
    /\ \E k \in 0..Len(BackupFileList) :
          IF FALSE
          THEN /\ PhaseEnds("ok")
               /\ UNCHANGED <<backups, err>>
          ELSE /\ backups' = backups \cup {BackupFileList[f] : f \in 1..k}
               /\ PhaseEnds(IF k = Len(BackupFileList) THEN "ok" ELSE "error")
               /\ err' = IF k = Len(BackupFileList) THEN err ELSE "backup-failed"
    /\ UNCHANGED <<tool, cfg, list, listKind, idxI, idxJ, devbox, op, retry, ctxDone, result,
                   failedOn, started, visited, step>>
    /\ UNCHANGED <<controller, crds>>
    /\ UNCHANGED fileVars
    /\ UNCHANGED clusterVars
    /\ UNCHANGED convVars
    /\ UNCHANGED runVars

\* backupCRAndCRD: nothing in a dry run; otherwise the files are written in
\* order until the first failure.
UpgradeBackup ==
    /\ tool = "upgrade" /\ pc = "backup"
    /\ \E k \in 0..Len(BackupFileList) :
          IF cfg.DryRun
          THEN /\ PhaseEnds("ok")
               /\ UNCHANGED <<backups, err>>
          ELSE /\ backups' = backups \cup {BackupFileList[f] : f \in 1..k}
               /\ PhaseEnds(IF k = Len(BackupFileList) THEN "ok" ELSE "error")
               /\ err' = IF k = Len(BackupFileList) THEN err ELSE "backup-failed"
    /\ UNCHANGED <<tool, cfg, list, listKind, idxI, idxJ, devbox, op, retry, ctxDone, result,
                   failedOn, started, visited, step>>
    /\ UNCHANGED <<controller, crds>>
    /\ UNCHANGED fileVars
    /\ UNCHANGED clusterVars
    /\ UNCHANGED convVars
    /\ UNCHANGED runVars

\* pauseAllDevboxes of the upgrade tool up to the loop.
UpgradePauseList ==
    /\ tool = "upgrade" /\ pc = "list"
    /\ \E fault \in BOOLEAN :
          IF fault THEN /\ PhaseEnds("error")
                        /\ err' = "list-failed"
                        /\ UNCHANGED <<list, listKind, idxI, operationID>>
          ELSE /\ list' = ListOf("Devbox")
               /\ listKind' = "Devbox"
               /\ idxI' = 0
               /\ operationID' = "upgrade-" \o ToString(now)
               /\ pc' = "item"
               /\ UNCHANGED <<phaseLog, err>>
    /\ UNCHANGED <<tool, cfg, idxJ, devbox, op, retry, ctxDone, result, failedOn, started,
                   visited, backupStates, backupFile, step>>
    /\ UNCHANGED infraVars
    /\ UNCHANGED clusterVars
    /\ UNCHANGED convVars
    /\ UNCHANGED runVars

\* The head of its loop: the backup state is recorded; in a dry run and for a
\* devbox that is not Running nothing else happens; a Running devbox waits
\* for its commits.  After the last item the backup states are saved.
UpgradePauseItem ==
    /\ tool = "upgrade" /\ pc = "item"
    /\ IF idxI < Len(list)
       THEN LET item == list[idxI + 1]
            IN  /\ backupStates' = Append(backupStates,
                                          DevboxBackupState(item, operationID, now))
                /\ visited' = visited \cup {item.name}
                /\ devbox' = item
                /\ IF ~cfg.DryRun /\ item.state = DevboxStateRunning
                   THEN /\ op' = NewWait(item.name, item, UpgradeCommitTimeout)
                        /\ pc' = "waiting"
                        /\ UNCHANGED idxI
                   ELSE /\ idxI' = idxI + 1
                        /\ UNCHANGED <<pc, op>>
                /\ UNCHANGED <<backupFile, phaseLog, err>>
       ELSE /\ \E fault \in BOOLEAN :
                  IF ~cfg.DryRun /\ fault
                  THEN /\ PhaseEnds("error")
                       /\ err' = "save-failed"
                       /\ UNCHANGED backupFile
                  ELSE /\ PhaseEnds("ok")
                       /\ backupFile' = IF cfg.DryRun THEN backupFile ELSE backupStates
                       /\ UNCHANGED err
            /\ UNCHANGED <<idxI, devbox, op, backupStates, visited>>
    /\ UNCHANGED <<tool, cfg, list, listKind, idxJ, retry, ctxDone, result, failedOn, started,
                   operationID, step>>
    /\ UNCHANGED infraVars
    /\ UNCHANGED clusterVars
    /\ UNCHANGED convVars
    /\ UNCHANGED runVars

\* waitForCommitsToFinish returned: its error is returned; otherwise the
\* listed devbox is set to Stopped and sent with one k8sClient.Update.
UpgradePauseWaited ==
    /\ tool = "upgrade" /\ pc = "waiting" /\ Returned
    /\ IF Succeeded
       THEN /\ devbox' = [devbox EXCEPT !.state = DevboxStateStopped]
            /\ op' = NewOp("Update", devbox.name, devbox', NoInfo, "", "")
            /\ started' = started \cup {<<"stop", devbox.name>>}
            /\ pc' = "stopping"
            /\ UNCHANGED <<failedOn, err, phaseLog>>
       ELSE /\ PhaseEnds("error")
            /\ failedOn' = devbox.name
            /\ err' = op.err
            /\ UNCHANGED <<devbox, op, started>>
    /\ UNCHANGED <<tool, cfg, list, listKind, idxI, idxJ, retry, ctxDone, result, visited,
                   step>>
    /\ UNCHANGED fileVars
    /\ UNCHANGED infraVars
    /\ UNCHANGED clusterVars
    /\ UNCHANGED convVars
    /\ UNCHANGED runVars

\* k8sClient.Update(ctx, devbox) returned: its error is returned; otherwise
\* the next item.
UpgradePauseWritten ==
    /\ tool = "upgrade" /\ pc = "stopping" /\ Returned
    /\ IF Succeeded
       THEN /\ devbox' = op.latest
            /\ idxI' = idxI + 1
            /\ pc' = "item"
            /\ UNCHANGED <<failedOn, err, phaseLog>>
       ELSE /\ PhaseEnds("error")
            /\ failedOn' = devbox.name
            /\ err' = op.err
            /\ UNCHANGED <<devbox, idxI>>
    /\ UNCHANGED <<tool, cfg, list, listKind, idxJ, op, retry, ctxDone, result, started,
                   visited, step>>
    /\ UNCHANGED fileVars
    /\ UNCHANGED infraVars
    /\ UNCHANGED clusterVars
    /\ UNCHANGED convVars
    /\ UNCHANGED runVars

\* pauseController of the upgrade tool.
UpgradePauseController ==
    /\ tool = "upgrade" /\ pc = "controller"
    /\ \E outcome \in ControllerOutcomes :
          /\ pauseControllerWrites(cfg.DryRun, outcome)
          /\ IF pauseControllerErr(cfg.DryRun, outcome) = "ok"
             THEN /\ PhaseEnds("ok")
                  /\ UNCHANGED err
             ELSE /\ PhaseEnds("error")
                  /\ err' = pauseControllerErr(cfg.DryRun, outcome)
    /\ UNCHANGED <<tool, cfg, list, listKind, idxI, idxJ, devbox, op, retry, ctxDone, result,
                   failedOn, started, visited, step>>
    /\ UNCHANGED crds
    /\ UNCHANGED fileVars
    /\ UNCHANGED clusterVars
    /\ UNCHANGED convVars
    /\ UNCHANGED runVars

\* The CRDs in the order the tools update them.
CRDOrder == <<"devboxes.devbox.sealos.io", "devboxreleases.devbox.sealos.io">>

\* applyCRDFromFile: the v1alpha2 manifest replaces the spec; v1alpha2 becomes
\* the storage version and the API server adds it to status.storedVersions.
applyCRDFromFile(crd) ==
    [crd EXCEPT !.v1alpha2 = "served", !.storage = "v1alpha2",
                !.storedVersions = @ \cup {"v1alpha2"}]

\* disableV1Alpha1Version: served=false on v1alpha1 if the CRD has it.  The
\* change it makes to status.storedVersions is sent with a plain Update,
\* which does not write the status.
disableV1Alpha1Version(crd) ==
    IF crd.v1alpha1 = "absent" THEN crd ELSE [crd EXCEPT !.v1alpha1 = "unserved"]

\* The CRDs after the first k of them went through f.
CRDsAfter(f(_), k) ==
    [c \in CRDNames |-> IF \E n \in 1..k : CRDOrder[n] = c THEN f(crds[c]) ELSE crds[c]]

\* updateCRDs: nothing in a dry run; otherwise each CRD in turn until the
\* first failure.
UpgradeUpdateCRDs ==
    /\ tool = "upgrade" /\ pc = "crds"
    /\ \E k \in 0..Len(CRDOrder) :
          IF cfg.DryRun
          THEN /\ PhaseEnds("ok")
               /\ UNCHANGED <<crds, err>>
          ELSE /\ crds' = CRDsAfter(applyCRDFromFile, k)
               /\ PhaseEnds(IF k = Len(CRDOrder) THEN "ok" ELSE "error")
               /\ err' = IF k = Len(CRDOrder) THEN err ELSE "crd-update-failed"
    /\ UNCHANGED <<tool, cfg, list, listKind, idxI, idxJ, devbox, op, retry, ctxDone, result,
                   failedOn, started, visited, step>>
    /\ UNCHANGED <<controller, backups>>
    /\ UNCHANGED fileVars
    /\ UNCHANGED clusterVars
    /\ UNCHANGED convVars
    /\ UNCHANGED runVars

\* transformCRs: transformDevboxes, then transformDevboxReleases; this is the
\* List call of either.
UpgradeTransformList ==
    /\ tool = "upgrade" /\ pc \in {"tlist", "rlist"}
    /\ \E fault \in BOOLEAN :
          IF fault THEN /\ PhaseEnds("error")
                        /\ err' = "list-failed"
                        /\ UNCHANGED <<list, listKind, idxI>>
          ELSE /\ listKind' = IF pc = "tlist" THEN "Devbox" ELSE "DevBoxRelease"
               /\ list' = ListOf(listKind')
               /\ idxI' = 0
               /\ pc' = "titem"
               /\ UNCHANGED <<phaseLog, err>>
    /\ UNCHANGED <<tool, cfg, idxJ, devbox, op, retry, ctxDone, result, failedOn, started,
                   visited, step>>
    /\ UNCHANGED fileVars
    /\ UNCHANGED infraVars
    /\ UNCHANGED clusterVars
    /\ UNCHANGED convVars
    /\ UNCHANGED runVars

\* The head of the transform loop: a dry run only logs; otherwise
\* forceStorageVersionUpdate is called once.  After the last devbox the
\* releases follow; after the last release transformCRs returns nil.
UpgradeTransformItem ==
    /\ tool = "upgrade" /\ pc = "titem"
    /\ IF idxI < Len(list)
       THEN LET item == list[idxI + 1]
            IN  /\ visited' = visited \cup {item.name}
                /\ devbox' = item
                /\ IF cfg.DryRun
                   THEN /\ idxI' = idxI + 1
                        /\ UNCHANGED <<pc, op, started>>
                   ELSE /\ op' = NewOp("upgrade.forceStorageVersionUpdate", item.name, item,
                                       NoInfo, "", "")
                        /\ started' = started \cup {<<"transform", item.name>>}
                        /\ pc' = "forcing"
                        /\ UNCHANGED idxI
                /\ UNCHANGED <<listKind, phaseLog>>
       ELSE IF listKind = "Devbox"
       THEN /\ pc' = "rlist"
            /\ UNCHANGED <<idxI, devbox, op, started, visited, listKind, phaseLog>>
       ELSE /\ PhaseEnds("ok")
            /\ UNCHANGED <<idxI, devbox, op, started, visited, listKind>>
    /\ UNCHANGED <<tool, cfg, list, idxJ, retry, ctxDone, result, failedOn, err, step>>
    /\ UNCHANGED fileVars
    /\ UNCHANGED infraVars
    /\ UNCHANGED clusterVars
    /\ UNCHANGED convVars
    /\ UNCHANGED runVars

\* forceStorageVersionUpdate returned: its error is returned; otherwise the
\* next item.
UpgradeTransformed ==
    /\ tool = "upgrade" /\ pc = "forcing" /\ Returned
    /\ IF Succeeded
       THEN /\ idxI' = idxI + 1
            /\ pc' = "titem"
            /\ UNCHANGED <<failedOn, err, phaseLog>>
       ELSE /\ PhaseEnds("error")
            /\ failedOn' = devbox.name
            /\ err' = op.err
            /\ UNCHANGED idxI
    /\ UNCHANGED <<tool, cfg, list, listKind, idxJ, devbox, op, retry, ctxDone, result,
                   started, visited, step>>
    /\ UNCHANGED fileVars
    /\ UNCHANGED infraVars
    /\ UNCHANGED clusterVars
    /\ UNCHANGED convVars
    /\ UNCHANGED runVars

\* finalCRDUpdate: nothing in a dry run; otherwise each CRD in turn until the
\* first failure.
UpgradeFinalize ==
    /\ tool = "upgrade" /\ pc = "finalize"
    /\ \E k \in 0..Len(CRDOrder) :
          IF cfg.DryRun
          THEN /\ PhaseEnds("ok")
               /\ UNCHANGED <<crds, err>>
          ELSE /\ crds' = CRDsAfter(disableV1Alpha1Version, k)
               /\ PhaseEnds(IF k = Len(CRDOrder) THEN "ok" ELSE "error")
               /\ err' = IF k = Len(CRDOrder) THEN err ELSE "crd-update-failed"
    /\ UNCHANGED <<tool, cfg, list, listKind, idxI, idxJ, devbox, op, retry, ctxDone, result,
                   failedOn, started, visited, step>>
    /\ UNCHANGED <<controller, backups>>
    /\ UNCHANGED fileVars
    /\ UNCHANGED clusterVars
    /\ UNCHANGED convVars
    /\ UNCHANGED runVars

UpgradeNext ==
    \/ PerformUpgrade
    \/ UpgradeReturned
    \/ UpgradeBackup
    \/ UpgradePauseList
    \/ UpgradePauseItem
    \/ UpgradePauseWaited
    \/ UpgradePauseWritten
    \/ UpgradePauseController
    \/ UpgradeUpdateCRDs
    \/ UpgradeTransformList
    \/ UpgradeTransformItem
    \/ UpgradeTransformed
    \/ UpgradeFinalize
    \/ OpGet
    \/ OpUpdate
    \/ WaitPoll
    \/ FinishCommit
    \/ ExtWrite

SpecUpgrade == UpgradeInit /\ [][UpgradeNext]_vars

(***************************************************************************)
(* scripts/upgrade-v1-to-v2.sh: the shell orchestrator.  Each step runs one *)
(* of the tools as a child process; here only its exit status is kept, the  *)
(* tools themselves are the programs above.                                 *)
(***************************************************************************)
ShellConfig ==
    [dry_run : BOOLEAN, skip_backup : BOOLEAN, skip_pause : BOOLEAN, only_backup : BOOLEAN,
     only_pause : BOOLEAN, only_transform : BOOLEAN]

ShellLastStep == 5
ShellStepPhase(k) ==
    CASE k = 1 -> "Backup"
      [] k = 2 -> "Pause"
      [] k = 3 -> "SchemaUpdate"
      [] k = 4 -> "Transform"
      [] OTHER -> "Finalize"

ShellStepEnabled(k, c) ==
    CASE k = 1 -> ~c.skip_backup
      [] k = 2 -> ~c.skip_pause
      [] k = 3 -> ~c.only_transform
      [] OTHER -> TRUE

ShellReturnsAfter(k, c) ==
    \/ k = 1 /\ c.only_backup
    \/ k = 2 /\ c.only_pause
    \/ k = 4 /\ c.only_transform

ShellInit ==
    /\ IdleConv
    /\ ClusterInit({<<DevboxStateRunning, NoCommits>>})
    /\ tool = "upgrade-v1-to-v2.sh"
    /\ cfg \in ShellConfig
    /\ pc = "precheck"
    /\ list = <<>>
    /\ listKind = ""
    /\ idxI = 0
    /\ idxJ = 0
    /\ devbox = NoObject
    /\ op = NoOp
    /\ retry = NoRetry
    /\ ctxDone = FALSE
    /\ result = "running"
    /\ failedOn = ""
    /\ err = ""
    /\ started = {}
    /\ visited = {}
    /\ backupStates = <<>>
    /\ backupFile = <<>>
    /\ operationID = ""
    /\ step = 1
    /\ phaseLog = <<>>
    /\ run = 1
    /\ writes = 0

\* check_kubectl, check_k8s_connection, build_tools, mkdir: any failure exits.
ShellPrecheck ==
    /\ tool = "upgrade-v1-to-v2.sh" /\ pc = "precheck"
    /\ \E status \in {"ok", "error"} :
          IF status = "error" THEN Finish("error", "", "precheck-failed")
          ELSE /\ pc' = "dispatch"
               /\ UNCHANGED <<result, failedOn, err>>
    /\ UNCHANGED <<tool, cfg, list, listKind, idxI, idxJ, devbox, op, retry, ctxDone, started,
                   visited>>
    /\ UNCHANGED fileVars
    /\ UNCHANGED orchVars
    /\ UNCHANGED infraVars
    /\ UNCHANGED clusterVars
    /\ UNCHANGED convVars
    /\ UNCHANGED runVars

\* main at the head of a step; after the last step check_status runs.
ShellMain ==
    /\ tool = "upgrade-v1-to-v2.sh" /\ pc = "dispatch"
    /\ IF step > ShellLastStep
       THEN /\ \E status \in {"ok", "error"} :
                  Finish(status, "", IF status = "ok" THEN "" ELSE "check-status-failed")
            /\ UNCHANGED <<step, phaseLog>>
       ELSE IF ShellStepEnabled(step, cfg)
       THEN /\ pc' = "phase"
            /\ phaseLog' = Append(phaseLog, <<ShellStepPhase(step), "start">>)
            /\ UNCHANGED <<step, result, failedOn, err>>
       ELSE /\ step' = step + 1
            /\ UNCHANGED <<pc, phaseLog, result, failedOn, err>>
    /\ UNCHANGED <<tool, cfg, list, listKind, idxI, idxJ, devbox, op, retry, ctxDone, started,
                   visited>>
    /\ UNCHANGED fileVars
    /\ UNCHANGED infraVars
    /\ UNCHANGED clusterVars
    /\ UNCHANGED convVars
    /\ UNCHANGED runVars

\* The step's tool exits.
ShellPhase ==
    /\ tool = "upgrade-v1-to-v2.sh" /\ pc = "phase"
    /\ \E status \in {"ok", "error"} :
          /\ phaseLog' = Append(phaseLog, <<ShellStepPhase(step), status>>)
          /\ err' = IF status = "ok" THEN err ELSE "tool-failed"
    /\ pc' = "returned"
    /\ UNCHANGED <<tool, cfg, list, listKind, idxI, idxJ, devbox, op, retry, ctxDone, result,
                   failedOn, started, visited, step>>
    /\ UNCHANGED fileVars
    /\ UNCHANGED infraVars
    /\ UNCHANGED clusterVars
    /\ UNCHANGED convVars
    /\ UNCHANGED runVars

\* Back in main: under `set -e` a failed step exits the script; an only-flag
\* exits 0 after its step; after the transform of a real run
\* show_upgrade_progress runs, and its failure exits too.
ShellReturned ==
    /\ tool = "upgrade-v1-to-v2.sh" /\ pc = "returned"
    /\ \E progress \in {"ok", "error"} :
          IF phaseLog[Len(phaseLog)][2] = "error"
          THEN /\ Finish("error", "", err)
               /\ UNCHANGED step
          ELSE IF ShellReturnsAfter(step, cfg)
          THEN /\ Finish("ok", "", "")
               /\ UNCHANGED step
          ELSE IF ShellStepPhase(step) = "Transform" /\ ~cfg.dry_run /\ progress = "error"
          THEN /\ Finish("error", "", "status-failed")
               /\ UNCHANGED step
          ELSE /\ step' = step + 1
               /\ pc' = "dispatch"
               /\ UNCHANGED <<result, failedOn, err>>
    /\ UNCHANGED <<tool, cfg, list, listKind, idxI, idxJ, devbox, op, retry, ctxDone, started,
                   visited, phaseLog>>
    /\ UNCHANGED fileVars
    /\ UNCHANGED infraVars
    /\ UNCHANGED clusterVars
    /\ UNCHANGED convVars
    /\ UNCHANGED runVars

ShellNext ==
    \/ ShellPrecheck
    \/ ShellMain
    \/ ShellPhase
    \/ ShellReturned

OrchestratorInit == UpgradeInit \/ ShellInit

OrchestratorNext == UpgradeNext \/ ShellNext

SpecOrchestrator == OrchestratorInit /\ [][OrchestratorNext]_vars

(***************************************************************************)
(* Claims about the orchestrators.                                          *)
(***************************************************************************)
PhaseRank(p) ==
    CASE p = "Backup" -> 1
      [] p = "Pause" -> 2
      [] p = "PauseController" -> 2
      [] p = "SchemaUpdate" -> 3
      [] p = "Transform" -> 4
      [] OTHER -> 5

\* Stopping the controller belongs to the Pause phase and follows the
\* devboxes' pause.
Follows(p, q) ==
    \/ PhaseRank(p) < PhaseRank(q)
    \/ p = "Pause" /\ q = "PauseController"

\* C3: in every run of either orchestrator the phases that run start in the
\* order Backup, Pause, SchemaUpdate, Transform, Finalize; a phase starts only
\* directly after the phase started before it returned success; and nothing
\* starts after a phase returned an error.
C3_PhaseOrdering ==
    \A k \in 1..Len(phaseLog) :
       /\ phaseLog[k][2] = "start" /\ k > 1 =>
             /\ phaseLog[k - 1][2] = "ok"
             /\ Follows(phaseLog[k - 1][1], phaseLog[k][1])
       /\ phaseLog[k][2] # "start" =>
             /\ k > 1
             /\ phaseLog[k - 1] = <<phaseLog[k][1], "start">>
       /\ phaseLog[k][2] = "error" => k = Len(phaseLog)

\* A run of the upgrade tool in which every phase ran and returned success.
C3_Witness_AllPhasesRan ==
    /\ tool = "upgrade"
    /\ pc = "done"
    /\ result = "ok"
    /\ ~cfg.DryRun
    /\ Len(phaseLog) = 2 * LastStep
    /\ phaseLog[2 * LastStep] = <<"Finalize", "ok">>

(***************************************************************************)
(* Claims about the Pause phase, over devbox-pause and the upgrade tool.    *)
(***************************************************************************)
PausePhaseInit == PauseInit \/ UpgradeInit

PausePhaseNext == PauseNext \/ UpgradeNext

SpecPausePhase == PausePhaseInit /\ [][PausePhaseNext]_vars

\* The position of a name in the list the tool works through (0: not in it).
PositionOf(name) ==
    IF \E k \in 1..Len(list) : list[k].name = name
    THEN CHOOSE k \in 1..Len(list) : list[k].name = name
    ELSE 0

\* C4: the wait for a devbox's commits returns nil only after a poll that saw
\* no commit in flight, so a commit in flight for the whole window ends the
\* wait with the timeout error once the deadline is reached (or with the
\* error of a failed Get); after a timeout the Pause phase ends with that
\* error for that devbox, the devbox was never sent a Stopped write and is
\* not Stopped in the store, and no devbox after it in the list was touched.
C4_PauseTimeout ==
    /\ op.kind = "waitForCommitsToFinish" /\ op.phase = "done" =>
          /\ op.err = "ok" => ~HasActiveCommits(op.latest)
          /\ op.err \notin {"ok", "get-failed"} =>
                op.err = "timeout" /\ ~(now < op.deadline)
    /\ err = "timeout" =>
          /\ failedOn \in DevboxNames
          /\ <<"stop", failedOn>> \notin started
          /\ store[failedOn].state = DevboxStateRunning
          /\ \A k \in 1..Len(list) :
                k > PositionOf(failedOn) =>
                   /\ list[k].name \notin visited
                   /\ <<"stop", list[k].name>> \notin started
                   /\ store[list[k].name].state = list[k].state
                   /\ store[list[k].name].ann = list[k].ann
          /\ pc = "done" => result = "error"
          /\ tool = "upgrade" /\ Len(phaseLog) > 0 /\ phaseLog[Len(phaseLog)][2] # "start" =>
                phaseLog[Len(phaseLog)] = <<"Pause", "error">>

\* A run that ended in the timeout of the first of two devboxes, whose commit
\* is still in flight after the whole window.
C4_Witness_TimedOut ==
    /\ pc = "done"
    /\ result = "error"
    /\ err = "timeout"
    /\ Len(list) = MaxDevboxes
    /\ failedOn = list[1].name
    /\ HasActiveCommits(store[failedOn])
    /\ now >= MaxWaitPolls * PollInterval

(***************************************************************************)
(* Claims about the Transform phase, over devbox-transform and the upgrade  *)
(* tool.                                                                    *)
(***************************************************************************)
TransformPhaseInit == TransformInit \/ UpgradeInit

TransformPhaseNext == TransformNext \/ UpgradeNext

SpecTransformPhase == TransformPhaseInit /\ [][TransformPhaseNext]_vars

\* The order in which a transform works through the resources: the devboxes
\* in list order, then the releases in list order.
ProcessingOrder ==
    [k \in 1..(MaxDevboxes + MaxReleases) |->
        IF k <= MaxDevboxes THEN DevboxName(k) ELSE ReleaseName(k - MaxDevboxes)]

OrderOf(name) == CHOOSE k \in DOMAIN ProcessingOrder : ProcessingOrder[k] = name

\* The transform of a resource has failed for good.
TransformFailedOn(name) ==
    /\ failedOn = name
    /\ <<"transform", name>> \in started

\* C5: once the transform write of a resource has failed for good, no
\* transform is started on any resource later in the processing order, no
\* such resource carries the storage-upgrade annotation, and the run ends
\* with an error.
C5_TransformFailFast ==
    \A name \in Names :
       TransformFailedOn(name) =>
          /\ \A later \in Names :
                OrderOf(later) > OrderOf(name) =>
                   /\ <<"transform", later>> \notin started
                   /\ ~HasAnnotation(store[later].ann, AnnotationStorageUpgrade)
          /\ pc = "done" => result = "error"
          /\ tool = "upgrade" /\ phaseLog[Len(phaseLog)][2] # "start" =>
                phaseLog[Len(phaseLog)] = <<"Transform", "error">>

\* A run that ended in the failed transform of the first resource while
\* later resources exist.
C5_Witness_FirstFailed ==
    /\ pc = "done"
    /\ result = "error"
    /\ TransformFailedOn(ProcessingOrder[1])
    /\ \E later \in Names : OrderOf(later) > 1 /\ store[later].kind # ""

(***************************************************************************)
(* devbox-restore (v1alpha1): performRestore and restoreDevboxState, and    *)
(* the tool being run a second time with the same flags and the same file.  *)
(***************************************************************************)
RestoreConfig == [DryRun : BOOLEAN, Force : BOOLEAN, OperationID : {"", "pause-0", "pause-9"}]

\* devbox_backup_states.json as a pause run wrote it: one record per devbox.
BackupFiles ==
    {[k \in 1..MaxDevboxes |->
         [Name |-> DevboxName(k), State |-> f[k], OperationID |-> "pause-0", BackupTime |-> 0]] :
        f \in [1..MaxDevboxes -> {DevboxStateRunning, DevboxStateStopped}]}

RestoreInit ==
    /\ IdleConv
    /\ ClusterInit({<<DevboxStateRunning, NoCommits>>, <<DevboxStateStopped, NoCommits>>})
    /\ tool = "devbox-restore"
    /\ cfg \in RestoreConfig
    /\ pc = "start"
    /\ list = <<>>
    /\ listKind = ""
    /\ idxI = 0
    /\ idxJ = 0
    /\ devbox = NoObject
    /\ op = NoOp
    /\ retry = NoRetry
    /\ ctxDone = FALSE
    /\ result = "running"
    /\ failedOn = ""
    /\ err = ""
    /\ started = {}
    /\ visited = {}
    /\ backupStates = <<>>
    /\ backupFile \in BackupFiles
    /\ operationID = ""
    /\ step = 0
    /\ phaseLog = <<>>
    /\ run = 1
    /\ writes = 0

\* The records of a file whose OperationID is id, in file order.
RECURSIVE WithOperationID(_, _)
WithOperationID(states, id) ==
    IF states = <<>> THEN <<>>
    ELSE IF states[1].OperationID = id
    THEN <<states[1]>> \o WithOperationID(Tail(states), id)
    ELSE WithOperationID(Tail(states), id)

\* performRestore up to the loop: loadBackupStates, then the filter on
\* config.OperationID, which must not leave nothing.
PerformRestore ==
    /\ tool = "devbox-restore" /\ pc = "start"
    /\ \E fault \in BOOLEAN :
          LET targetStates == IF cfg.OperationID # ""
                              THEN WithOperationID(backupFile, cfg.OperationID)
                              ELSE backupFile
          IN  IF fault
              THEN /\ Finish("error", "", "load-failed")
                   /\ phaseLog' = Append(phaseLog, <<"", "load-failed">>)
                   /\ UNCHANGED <<backupStates, idxI>>
              ELSE IF cfg.OperationID # "" /\ Len(targetStates) = 0
              THEN /\ Finish("error", "", "no-backup-states")
                   /\ phaseLog' = Append(phaseLog, <<"", "no-backup-states">>)
                   /\ UNCHANGED <<backupStates, idxI>>
              ELSE /\ backupStates' = targetStates
                   /\ idxI' = 0
                   /\ pc' = "item"
                   /\ UNCHANGED <<result, failedOn, err, phaseLog>>
    /\ UNCHANGED <<tool, cfg, list, listKind, idxJ, devbox, op, retry, ctxDone, started, visited,
                   backupFile, operationID, step>>
    /\ UNCHANGED infraVars
    /\ UNCHANGED clusterVars
    /\ UNCHANGED convVars
    /\ UNCHANGED runVars

\* The head of the restore loop and the head of restoreDevboxState: a dry run
\* returns nil; otherwise the devbox is fetched.
RestoreItem ==
    /\ tool = "devbox-restore" /\ pc = "item"
    /\ IF idxI < Len(backupStates)
       THEN /\ visited' = visited \cup {backupStates[idxI + 1].Name}
            /\ IF cfg.DryRun
               THEN /\ idxI' = idxI + 1
                    /\ UNCHANGED <<pc, op>>
               ELSE /\ op' = NewOp("Get", backupStates[idxI + 1].Name, NoObject, NoInfo, "", "")
                    /\ pc' = "getting"
                    /\ UNCHANGED idxI
            /\ UNCHANGED <<result, failedOn, err>>
       ELSE /\ Finish("ok", "", "")
            /\ UNCHANGED <<idxI, op, visited>>
    /\ UNCHANGED <<tool, cfg, list, listKind, idxJ, devbox, retry, ctxDone, started>>
    /\ UNCHANGED fileVars
    /\ UNCHANGED orchVars
    /\ UNCHANGED infraVars
    /\ UNCHANGED clusterVars
    /\ UNCHANGED convVars
    /\ UNCHANGED runVars

\* restoreDevboxState returned an error to performRestore: it is logged and
\* returned unless Force is set, and then the next record follows.
RestoreError(name, e) ==
    /\ phaseLog' = Append(phaseLog, <<name, e>>)
    /\ IF cfg.Force
       THEN /\ idxI' = idxI + 1
            /\ pc' = "item"
            /\ UNCHANGED <<result, failedOn, err>>
       ELSE /\ Finish("error", name, e)
            /\ UNCHANGED idxI

\* k8sClient.Get returned: a devbox whose Spec.State already matches is
\* skipped; otherwise Spec.State is set on the fetched object and
\* AddUpgradeAnnotations is called with it.
RestoreGot ==
    /\ tool = "devbox-restore" /\ pc = "getting" /\ Returned
    /\ LET state == backupStates[idxI + 1]
       IN  IF ~Succeeded
           THEN /\ RestoreError(state.Name, op.err)
                /\ UNCHANGED <<devbox, op, started>>
           ELSE IF op.latest.state = state.State
           THEN /\ idxI' = idxI + 1
                /\ pc' = "item"
                /\ UNCHANGED <<devbox, op, started, result, failedOn, err, phaseLog>>
           ELSE /\ devbox' = [op.latest EXCEPT !.state = state.State]
                /\ op' = NewOp("AddUpgradeAnnotations", state.Name, devbox',
                               [UpgradeInfo("restore-" \o state.OperationID, UpgradeStepRestore,
                                            UpgradeStatusRolledBack, "")
                                    EXCEPT !.Version = "restore-v1alpha1"], "", "")
                /\ started' = started \cup {<<"restore", state.Name>>}
                /\ pc' = "annotating"
                /\ UNCHANGED <<idxI, result, failedOn, err, phaseLog>>
    /\ UNCHANGED <<tool, cfg, list, listKind, idxJ, retry, ctxDone, visited, step>>
    /\ UNCHANGED fileVars
    /\ UNCHANGED infraVars
    /\ UNCHANGED clusterVars
    /\ UNCHANGED convVars
    /\ UNCHANGED runVars

\* AddUpgradeAnnotations returned (an error is logged and no more): the object
\* fetched before it is sent with k8sClient.Update.
RestoreAnnotated ==
    /\ tool = "devbox-restore" /\ pc = "annotating" /\ Returned
    /\ op' = NewOp("Update", devbox.name, devbox, NoInfo, "", "")
    /\ pc' = "updating"
    /\ phaseLog' = IF Succeeded THEN phaseLog ELSE Append(phaseLog, <<devbox.name, op.err>>)
    /\ UNCHANGED <<tool, cfg, list, listKind, idxI, idxJ, devbox, retry, ctxDone, result,
                   failedOn, err, started, visited, step>>
    /\ UNCHANGED fileVars
    /\ UNCHANGED infraVars
    /\ UNCHANGED clusterVars
    /\ UNCHANGED convVars
    /\ UNCHANGED runVars

\* k8sClient.Update returned.
RestoreUpdated ==
    /\ tool = "devbox-restore" /\ pc = "updating" /\ Returned
    /\ IF Succeeded
       THEN /\ idxI' = idxI + 1
            /\ pc' = "item"
            /\ UNCHANGED <<result, failedOn, err, phaseLog>>
       ELSE RestoreError(devbox.name, op.err)
    /\ UNCHANGED <<tool, cfg, list, listKind, idxJ, devbox, op, retry, ctxDone, started,
                   visited, step>>
    /\ UNCHANGED fileVars
    /\ UNCHANGED infraVars
    /\ UNCHANGED clusterVars
    /\ UNCHANGED convVars
    /\ UNCHANGED runVars

\* The tool has exited and is run again with the same flags and the same
\* backup states file; nothing else has touched the cluster, the clock has
\* moved on.
RestoreAgain ==
    /\ tool = "devbox-restore" /\ pc = "done" /\ run = 1
    /\ run' = 2
    /\ writes' = 0
    /\ now' = now + 1
    /\ pc' = "start"
    /\ result' = "running"
    /\ failedOn' = ""
    /\ err' = ""
    /\ idxI' = 0
    /\ devbox' = NoObject
    /\ op' = NoOp
    /\ backupStates' = <<>>
    /\ started' = {}
    /\ visited' = {}
    /\ UNCHANGED <<tool, cfg, list, listKind, idxJ, retry, ctxDone, backupFile, operationID>>
    /\ UNCHANGED <<store, extWrites>>
    /\ UNCHANGED orchVars
    /\ UNCHANGED infraVars
    /\ UNCHANGED convVars

RestoreNext ==
    \/ PerformRestore
    \/ RestoreItem
    \/ RestoreGot
    \/ RestoreAnnotated
    \/ RestoreUpdated
    \/ RestoreAgain
    \/ OpGet
    \/ OpUpdate

SpecRestore == RestoreInit /\ [][RestoreNext]_vars

\* The only errors the tool has logged are the store's rejections of its own
\* stale writes: no Get, Update or file read has failed.
OnlyConflictsLogged == \A k \in 1..Len(phaseLog) : phaseLog[k][2] = "conflict"

\* C6: while devbox-restore runs for the second time with the same backup
\* states file, and nothing else has touched the cluster in between, the
\* store accepts no Update from it (stated for runs in which no Get, Update
\* or file read failed).
C6_IdempotentRestore == run = 2 /\ OnlyConflictsLogged => writes = 0

(***************************************************************************)
(* The upgrade tracker called directly: any caller, any sequence of         *)
(* AddUpgradeAnnotations and UpdateUpgradeAnnotation calls on the devboxes. *)
(***************************************************************************)
MaxCalls == 2

TrackerInit ==
    /\ IdleConv
    /\ ClusterInit({<<DevboxStateRunning, NoCommits>>})
    /\ tool = "tracker"
    /\ cfg = [DryRun |-> FALSE]
    /\ pc = "start"
    /\ list = ListOf("Devbox")
    /\ listKind = "Devbox"
    /\ idxI = 0
    /\ idxJ = 0
    /\ devbox = NoObject
    /\ op = NoOp
    /\ retry = NoRetry
    /\ ctxDone = FALSE
    /\ result = "running"
    /\ failedOn = ""
    /\ err = ""
    /\ started = {}
    /\ visited = {}
    /\ backupStates = <<>>
    /\ backupFile = <<>>
    /\ operationID = ""
    /\ step = 0
    /\ phaseLog = <<>>
    /\ run = 1
    /\ writes = 0

\* A caller calls AddUpgradeAnnotations with some UpgradeInfo,
\* UpdateUpgradeAnnotation for the status key, or ClearUpgradeAnnotations.
TrackerCall ==
    /\ tool = "tracker" /\ pc = "start"
    /\ idxI < MaxCalls
    /\ \E k \in 1..Len(list) :
          \/ \E originalState \in {"", DevboxStateRunning, DevboxStateStopped} :
                op' = NewOp("AddUpgradeAnnotations", list[k].name, list[k],
                            UpgradeInfo("op-" \o ToString(idxI), UpgradeStepPause,
                                        UpgradeStatusInProgress, originalState), "", "")
          \/ op' = NewOp("UpdateUpgradeAnnotation", list[k].name, list[k], NoInfo,
                         AnnotationUpgradeStatus, UpgradeStatusPaused)
          \/ op' = NewOp("ClearUpgradeAnnotations", list[k].name, list[k], NoInfo, "", "")
    /\ idxI' = idxI + 1
    /\ pc' = "calling"
    /\ UNCHANGED <<tool, cfg, list, listKind, idxJ, devbox, retry, ctxDone, result, failedOn, err,
                   started, visited>>
    /\ UNCHANGED fileVars
    /\ UNCHANGED orchVars
    /\ UNCHANGED infraVars
    /\ UNCHANGED clusterVars
    /\ UNCHANGED convVars
    /\ UNCHANGED runVars

\* The call returned; a successful AddUpgradeAnnotations is noted with the
\* OriginalState it was given.
TrackerReturned ==
    /\ tool = "tracker" /\ pc = "calling" /\ Returned
    /\ phaseLog' = IF Succeeded /\ op.kind = "AddUpgradeAnnotations"
                   THEN Append(phaseLog, <<op.name, op.info.OriginalState>>)
                   ELSE phaseLog
    /\ pc' = "start"
    /\ UNCHANGED <<tool, cfg, list, listKind, idxI, idxJ, devbox, op, retry, ctxDone, result,
                   failedOn, err, started, visited, step>>
    /\ UNCHANGED fileVars
    /\ UNCHANGED infraVars
    /\ UNCHANGED clusterVars
    /\ UNCHANGED convVars
    /\ UNCHANGED runVars

TrackerNext ==
    \/ TrackerCall
    \/ TrackerReturned
    \/ OpGet
    \/ OpUpdate
    \/ ExtWrite

SpecTracker == TrackerInit /\ [][TrackerNext]_vars

\* The successful AddUpgradeAnnotations calls on a resource that carried a
\* non-empty OriginalState, as positions in the history.
StateCalls(name) ==
    {k \in 1..Len(phaseLog) : phaseLog[k][1] = name /\ phaseLog[k][2] # ""}

FirstStateCall(name) == CHOOSE k \in StateCalls(name) : \A m \in StateCalls(name) : k <= m

\* C7: after any number of successful AddUpgradeAnnotations calls on a
\* resource, its original-state annotation holds the OriginalState of the
\* first call that gave a non-empty one; later calls with another value do
\* not change it.
C7_FirstWriteWins ==
    \A name \in DevboxNames :
       StateCalls(name) # {} =>
          /\ HasAnnotation(store[name].ann, AnnotationOriginalState)
          /\ store[name].ann[AnnotationOriginalState] = phaseLog[FirstStateCall(name)][2]

\* Two successful calls on one resource with different non-empty values.
C7_Witness_TwoValues ==
    \E name \in DevboxNames :
       \E k, m \in StateCalls(name) : k < m /\ phaseLog[k][2] # phaseLog[m][2]

(***************************************************************************)
(* retryWithBackoff under its two callers, devbox-transform and             *)
(* devbox-stop, with a context that may be cancelled.                       *)
(***************************************************************************)
\* The context passed to retryWithBackoff is cancelled.
Cancel ==
    /\ result = "running"
    /\ ~ctxDone
    /\ ctxDone' = TRUE
    /\ UNCHANGED <<tool, cfg, pc, list, listKind, idxI, idxJ, devbox, op, retry, result,
                   failedOn, err, started, visited>>
    /\ UNCHANGED clusterVars
    /\ UNCHANGED fileVars
    /\ UNCHANGED orchVars
    /\ UNCHANGED infraVars
    /\ UNCHANGED convVars
    /\ UNCHANGED runVars

RetryInit == TransformInit \/ StopInit

RetryNext == TransformNext \/ StopNext \/ Cancel

SpecRetry == RetryInit /\ [][RetryNext]_vars

\* The waits before the 2nd, 3rd and 4th attempt, in milliseconds.
ExpectedDelays == <<100, 200, 400>>

\* C8: a retryWithBackoff loop calls the operation at most 4 times; the waits
\* it has made are 100, 200, 400 ms in this order, one before each call after
\* the first, none above 5 s; it ends with success at the first call that
\* succeeds, every call before it having failed; it ends with the hard
\* failure only when 4 calls have failed; and it ends early only when the
\* context was cancelled.
C8_RetryBound ==
    retry.active =>
       /\ retry.calls <= 4
       /\ retry.attempt <= Len(ExpectedDelays)
       /\ retry.delays = SubSeq(ExpectedDelays, 1, retry.attempt)
       /\ \A k \in 1..Len(retry.delays) : retry.delays[k] <= 5000
       /\ retry.res \in {"running", "ok", "failed"} => retry.calls = retry.attempt + 1
       /\ retry.res \in {"waiting", "cancelled"} => retry.calls = retry.attempt
       /\ retry.res = "running" => retry.failures = retry.calls - 1
       /\ retry.res = "ok" => retry.failures = retry.calls - 1
       /\ retry.res = "failed" => retry.calls = 4 /\ retry.failures = 4
       /\ retry.res = "cancelled" => ctxDone /\ retry.failures = retry.calls

\* A loop that used all its attempts and made all three waits.
C8_Witness_AllAttemptsFailed ==
    /\ retry.active
    /\ retry.res = "failed"
    /\ retry.calls = 4
    /\ retry.delays = ExpectedDelays
    /\ ~ctxDone

(***************************************************************************)
(* Claims about the writes of the Pause and Transform phases.               *)
(***************************************************************************)
\* The calls that change a resource's desired state or force its storage
\* version: the Stopped write and the two transform writes.
MutatingWrites == {"Update", "forceStorageVersionUpdate", "upgrade.forceStorageVersionUpdate"}

\* C9: every Stopped write of the Pause phase and every transform write runs
\* inside a retryWithBackoff loop, and when such a write is handed back to the
\* tool as failed, 4 calls have been made.
C9_RetryCoverage ==
    op.kind \in MutatingWrites =>
       /\ retry.active
       /\ Returned /\ ~Succeeded => retry.calls = 4

\* C10: a retryWithBackoff loop whose every failure was a conflict ends in
\* the hard failure only if another client wrote the object again after the
\* loop's first failure.
C10_ConflictRecovery ==
    retry.active /\ retry.res = "failed" /\ retry.allConflicts /\ op.kind \in MutatingWrites =>
       retry.extSinceFailure

(***************************************************************************)
(* Cancellation of the upgrade tool's context.                             *)
(***************************************************************************)
\* The context handed to pauseAllDevboxes is cancelled between two devboxes
\* of its loop: the devbox before has been dealt with and no call is open.
CancelMidPhase ==
    /\ tool = "upgrade" /\ pc = "item"
    /\ 0 < idxI /\ idxI < Len(list)
    /\ Cancel

CancelInit == UpgradeInit

CancelNext == UpgradeNext \/ CancelMidPhase

SpecCancel == CancelInit /\ [][CancelNext]_vars

DryRunInit == UpgradeInit \/ PauseInit \/ TransformInit \/ StopInit

\* The steps of the four tools; the steps they share are listed once.
DryRunNext ==
    \/ UpgradeNext
    \/ PerformPause
    \/ PauseList
    \/ PauseItem
    \/ PauseAnnotated
    \/ PauseWaited
    \/ PauseWritten
    \/ PauseMarked
    \/ PauseFailed
    \/ PauseController
    \/ PerformTransform
    \/ TransformList
    \/ TransformBatch
    \/ TransformItem
    \/ TransformForced
    \/ TransformMarked
    \/ TransformFailed
    \/ StopList
    \/ StopItem
    \/ StopAnnotated
    \/ StopGot
    \/ StopWritten
    \/ StopMarked
    \/ StopFailed
    \/ RetryStep
    \/ RetryWake

SpecDryRun == DryRunInit /\ [][DryRunNext]_vars

\* The client calls that read only.
ReadOnlyCalls == {"", "Get", "waitForCommitsToFinish"}

RestoreSucceeded ==
    /\ tool = "devbox-restore" /\ pc = "updating"
    /\ Returned /\ Succeeded

\* C13: when the restore of a backup record whose state differed returns
\* success, the stored devbox has the recorded state, upgrade-status
\* rolled-back and upgrade-step restore, and its other fields are those the
\* tool fetched.
C13_RestoreEffect ==
    RestoreSucceeded =>
       LET stored == store[devbox.name]
       IN  /\ stored.state = backupStates[idxI + 1].State
           /\ GetUpgradeInfo(stored).Status = UpgradeStatusRolledBack
           /\ GetUpgradeInfo(stored).Step = UpgradeStepRestore
           /\ stored.commits = devbox.commits
           /\ stored.runtimeClass = devbox.runtimeClass

(***************************************************************************)
(* Claims about the schema objects.                                         *)
(***************************************************************************)
\* finalCRDUpdate of a real run has returned nil.
FinalizeSucceeded ==
    /\ tool = "upgrade" /\ ~cfg.DryRun
    /\ \E k \in 1..Len(phaseLog) : phaseLog[k] = <<"Finalize", "ok">>

\* C14: after the Finalize step of a real run has returned success, v1alpha1
\* is not served by either CRD and is in neither status.storedVersions.
C14_FinalizeDisablesV1Alpha1 ==
    FinalizeSucceeded =>
       \A c \in CRDNames :
          /\ crds[c].v1alpha1 # "served"
          /\ "v1alpha1" \notin crds[c].storedVersions

(***************************************************************************)
(* devbox-crd: waitForCRDsReady.                                            *)
(***************************************************************************)
CRDConfig == [OnlyDevboxes : BOOLEAN, OnlyReleases : BOOLEAN]

\* The number of polls of one CRD.
EstablishPolls == 60

\* crdNames of waitForCRDsReady.
SelectedCRDs(c) ==
    (IF ~c.OnlyReleases THEN <<"devboxes.devbox.sealos.io">> ELSE <<>>)
        \o (IF ~c.OnlyDevboxes THEN <<"devboxreleases.devbox.sealos.io">> ELSE <<>>)

\* What one k8sClient.Get of a CRD can show.
PollOutcomes == {"established", "not-established", "not-found", "get-failed"}

CrdWaitInit ==
    /\ IdleConv
    /\ ClusterInit({<<DevboxStateStopped, NoCommits>>})
    /\ tool = "devbox-crd"
    /\ cfg \in CRDConfig
    /\ pc = "start"
    /\ list = <<>>
    /\ listKind = ""
    /\ idxI = 0
    /\ idxJ = 0
    /\ devbox = NoObject
    /\ op = NoOp
    /\ retry = NoRetry
    /\ ctxDone = FALSE
    /\ result = "running"
    /\ failedOn = ""
    /\ err = ""
    /\ started = {}
    /\ visited = {}
    /\ backupStates = <<>>
    /\ backupFile = <<>>
    /\ operationID = ""
    /\ step = 0
    /\ phaseLog = <<>>
    /\ run = 1
    /\ writes = 0

\* waitForCRDsReady up to its loops.
WaitForCRDsReady ==
    /\ tool = "devbox-crd" /\ pc = "start"
    /\ list' = SelectedCRDs(cfg)
    /\ idxI' = 0
    /\ idxJ' = 0
    /\ pc' = "poll"
    /\ UNCHANGED <<tool, cfg, listKind, devbox, op, retry, ctxDone, result, failedOn, err,
                   started, visited>>
    /\ UNCHANGED fileVars
    /\ UNCHANGED orchVars
    /\ UNCHANGED infraVars
    /\ UNCHANGED clusterVars
    /\ UNCHANGED convVars
    /\ UNCHANGED runVars

\* One pass of the inner loop for crdNames[idxI] with i = idxJ.  A Get error
\* other than NotFound is returned; NotFound goes to the next i at once; an
\* established CRD ends the inner loop; otherwise i = 59 is the timeout and
\* any other i sleeps one second.  When i reaches 60 the inner loop is over
\* and the next CRD follows.
CrdPoll ==
    /\ tool = "devbox-crd" /\ pc = "poll"
    /\ idxI < Len(list)
    /\ \E outcome \in PollOutcomes :
          LET crdName == list[idxI + 1]
          IN  /\ UNCHANGED started
              /\ CASE outcome = "get-failed" ->
                        /\ Finish("error", crdName, "get-failed")
                        /\ UNCHANGED <<idxI, idxJ, visited, now>>
                   [] outcome = "not-found" ->
                        /\ IF idxJ + 1 < EstablishPolls
                           THEN /\ idxJ' = idxJ + 1
                                /\ UNCHANGED idxI
                           ELSE /\ idxI' = idxI + 1
                                /\ idxJ' = 0
                        /\ UNCHANGED <<pc, result, failedOn, err, visited, now>>
                   [] outcome = "established" ->
                        /\ visited' = visited \cup {crdName}
                        /\ idxI' = idxI + 1
                        /\ idxJ' = 0
                        /\ UNCHANGED <<pc, result, failedOn, err, now>>
                   [] OTHER ->
                        IF idxJ = EstablishPolls - 1
                        THEN /\ Finish("error", crdName, "timeout")
                             /\ UNCHANGED <<idxI, idxJ, visited, now>>
                        ELSE /\ now' = now + 1
                             /\ idxJ' = idxJ + 1
                             /\ UNCHANGED <<pc, result, failedOn, err, idxI, visited>>
    /\ UNCHANGED <<tool, cfg, list, listKind, devbox, op, retry, ctxDone>>
    /\ UNCHANGED <<store, extWrites>>
    /\ UNCHANGED fileVars
    /\ UNCHANGED orchVars
    /\ UNCHANGED infraVars
    /\ UNCHANGED convVars
    /\ UNCHANGED runVars

\* The outer loop is over: waitForCRDsReady returns nil.
CrdWaitReturn ==
    /\ tool = "devbox-crd" /\ pc = "poll"
    /\ idxI = Len(list)
    /\ Finish("ok", "", "")
    /\ UNCHANGED <<tool, cfg, list, listKind, idxI, idxJ, devbox, op, retry, ctxDone, started,
                   visited>>
    /\ UNCHANGED fileVars
    /\ UNCHANGED orchVars
    /\ UNCHANGED infraVars
    /\ UNCHANGED clusterVars
    /\ UNCHANGED convVars
    /\ UNCHANGED runVars

CrdWaitNext == WaitForCRDsReady \/ CrdPoll \/ CrdWaitReturn

SpecCrdWait == CrdWaitInit /\ [][CrdWaitNext]_vars

\* C15: a CRD is polled at most 60 times, with one second between two polls;
\* the wait returns nil only if every selected CRD was seen established, and
\* when 60 polls of a CRD did not see it established the wait returns the
\* timeout error.
C15_EstablishWait ==
    tool = "devbox-crd" =>
       /\ idxJ < EstablishPolls
       /\ now <= Len(list) * (EstablishPolls - 1)
       /\ result = "ok" => \A k \in 1..Len(list) : list[k] \in visited
       /\ result = "error" /\ err = "timeout" => failedOn \notin visited

(***************************************************************************)
(* Claims about the only-flags of the two orchestrators.                    *)
(***************************************************************************)
\* The only-flags and skip-flags of the run, whichever orchestrator it is.
OnlyFlag(phase) ==
    IF tool = "upgrade"
    THEN CASE phase = "Backup" -> cfg.OnlyBackup
           [] phase = "Pause" -> cfg.OnlyPause
           [] OTHER -> cfg.OnlyTransform
    ELSE CASE phase = "Backup" -> cfg.only_backup
           [] phase = "Pause" -> cfg.only_pause
           [] OTHER -> cfg.only_transform

SkipFlags ==
    IF tool = "upgrade" THEN cfg.SkipBackup \/ cfg.SkipPause
    ELSE cfg.skip_backup \/ cfg.skip_pause

OnlyPhases == {"Backup", "Pause", "Transform"}

\* The phases the run has entered so far.
PhasesRun == {phaseLog[k][1] : k \in 1..Len(phaseLog)}

\* C16: in a run with one only-flag set and no skip-flag, no phase other than
\* the one the flag names is run, and a run that ends well has run it.
C16_OnlyFlags ==
    \A phase \in OnlyPhases :
       (/\ OnlyFlag(phase)
        /\ \A other \in OnlyPhases \ {phase} : ~OnlyFlag(other)
        /\ ~SkipFlags)
       => /\ PhasesRun \subseteq {phase}
          /\ result = "ok" => PhasesRun = {phase}

(***************************************************************************)
(* Claims about writers that interleave with the annotation calls.          *)
(***************************************************************************)
AnnotationCalls == {"AddUpgradeAnnotations", "UpdateUpgradeAnnotation"}

\* The k8sClient.Update of an annotation call is accepted in this step.
AnnotationWriteAccepted ==
    /\ op.kind \in AnnotationCalls
    /\ op.phase = "upd"
    /\ op'.phase = "done" /\ op'.err = "ok"

C18_AnnotationFailureTolerated ==
    ~(/\ pc = "done"
      /\ result = "error"
      /\ op.kind = "AddUpgradeAnnotations"
      /\ op.phase = "done"
      /\ op.err # "ok")

(***************************************************************************)
(* Claims about the upgrade-status annotation.                              *)
(***************************************************************************)
\* C19: the upgrade-status of a devbox becomes completed only in a step from
\* in-progress with upgrade-step transform, and becomes in-progress with
\* step transform only from paused.
C19_StatusLifecycle ==
    [][\A n \in DevboxNames :
          LET old == GetUpgradeInfo(store[n])
              new == GetUpgradeInfo(store'[n])
          IN  /\ (new.Status = UpgradeStatusCompleted /\ old.Status # UpgradeStatusCompleted)
                    => old.Status = UpgradeStatusInProgress /\ old.Step = UpgradeStepTransform
              /\ (/\ new.Status = UpgradeStatusInProgress
                  /\ new.Step = UpgradeStepTransform
                  /\ old.Status # UpgradeStatusInProgress)
                    => old.Status = UpgradeStatusPaused]_vars

\* The step a tool's failure belongs to.
FailingStep ==
    CASE tool = "devbox-pause" -> UpgradeStepPause
      [] tool = "devbox-stop" -> UpgradeStepStop
      [] OTHER -> UpgradeStepTransform

\* The tool has ended with an error on a devbox after its failed mark was
\* written.
FailedAndMarked ==
    /\ pc = "done" /\ result = "error"
    /\ op.kind = "UpdateUpgradeAnnotation"
    /\ op.value = UpgradeStatusFailed
    /\ op.name \in DevboxNames
    /\ op.phase = "done" /\ op.err = "ok"

\* C20: when a tool has failed on a devbox and has written its failed mark,
\* the devbox carries upgrade-status failed, the failing step as upgrade-step
\* and a description of the error as upgrade-error.
C20_FailureRecorded ==
    FailedAndMarked =>
       LET info == GetUpgradeInfo(store[op.name])
       IN  /\ info.Status = UpgradeStatusFailed
           /\ info.Step = FailingStep
           /\ info.Error # ""

\* The values the documentation gives for the upgrade-status annotation
\* (examples/upgrade-examples.md:237-264), the ones the tracker declares.
DocumentedStatuses ==
    {UpgradeStatusPending, UpgradeStatusInProgress, UpgradeStatusPaused,
     UpgradeStatusCompleted, UpgradeStatusFailed, UpgradeStatusRolledBack}

\* The values the documentation gives for the upgrade-step annotation.
DocumentedSteps ==
    {UpgradeStepBackup, UpgradeStepPause, UpgradeStepCRDUpdate,
     UpgradeStepTransform, UpgradeStepFinalize, UpgradeStepRestore}

WithoutEmptyIDs(commitHistories) ==
    SelectSeq(commitHistories, LAMBDA e : e.ContainerID # "")

\* C22: filter invariant. An event with an empty ContainerID is neither a
\* key nor a record of the converted map and has no influence on any
\* BaseImage: the map is the one the conversion gives for the history with
\* those events removed.
C22_FilterInvariant ==
    convPc = "converted" =>
        LET h == src.CommitHistory
            recs == dst.Status.CommitRecords
        IN  /\ "" \notin DOMAIN recs
            /\ \A id \in DOMAIN recs :
                  \E i \in ValidEvents(h) :
                     /\ h[i].ContainerID = id
                     /\ recs[id].CommitImage = h[i].Image
                     /\ recs[id].CommitTime = h[i].Time
            /\ recs = transformCommitHistories(WithoutEmptyIDs(h))

\* A history that mixes an event without a container id with one that has
\* one has been converted.
C22_Witness_MixedHistory ==
    /\ convPc = "converted"
    /\ \E i, j \in 1..Len(src.CommitHistory) :
          /\ src.CommitHistory[i].ContainerID = ""
          /\ src.CommitHistory[j].ContainerID # ""
    /\ DOMAIN dst.Status.CommitRecords # {}

C24_SinglePendingRecord ==
    convPc = "converted" =>
        LET recs == dst.Status.CommitRecords
            pending == {id \in DOMAIN recs : recs[id].CommitStatus = CommitStatusPending}
        IN  /\ Cardinality(pending) = 1
            /\ pending = {dst.Status.ContentID}

\* C25: round trip. ConvertFrom of the result of ConvertTo has exactly the
\* name and the namespace of the devbox ConvertTo was given.
C25_RoundTripIdentity ==
    convPc = "restored" => back.Name = src.Name /\ back.Namespace = src.Namespace

\* A devbox with a commit history has gone through ConvertTo and ConvertFrom.
C25_Witness_RoundTrip ==
    /\ convPc = "restored"
    /\ src.Name = "gopher"
    /\ Len(back.CommitHistory) = MaxCommits
    /\ back.APIVersion = "devbox.sealos.io/v1alpha1"

(***************************************************************************)
(* devbox-stop run again on the same cluster with the same --backup-dir    *)
(***************************************************************************)
\* Every devbox is Running before the first run.
StopAgainInit ==
    /\ IdleConv
    /\ ClusterInit({<<DevboxStateRunning, NoCommits>>})
    /\ ToolInit("devbox-stop", DevboxStopConfig)

\* main is started a second time after the first run has returned, with or
\* without an error: the process starts afresh, the cluster and the files of
\* the backup directory are what the first run left.
StopAgain ==
    /\ tool = "devbox-stop" /\ pc = "done" /\ run = 1
    /\ run' = 2
    /\ writes' = 0
    /\ now' = now + 1
    /\ pc' = "start"
    /\ result' = "running"
    /\ failedOn' = ""
    /\ err' = ""
    /\ idxI' = 0
    /\ devbox' = NoObject
    /\ op' = NoOp
    /\ retry' = NoRetry
    /\ backupStates' = <<>>
    /\ started' = {}
    /\ visited' = {}
    /\ UNCHANGED <<tool, cfg, list, listKind, idxJ, ctxDone, backupFile, operationID>>
    /\ UNCHANGED <<store, extWrites>>
    /\ UNCHANGED orchVars
    /\ UNCHANGED infraVars
    /\ UNCHANGED convVars

StopAgainNext == StopNext \/ StopAgain

SpecStopAgain == StopAgainInit /\ [][StopAgainNext]_vars

\* The state the backup-states file records for the devbox, "" if none.
RecordedState(n) ==
    IF \E i \in 1..Len(backupFile) : backupFile[i].Name = n
    THEN backupFile[CHOOSE i \in 1..Len(backupFile) : backupFile[i].Name = n].State
    ELSE ""

\* C26: pause/restore round trip. After one or more stop runs on a cluster
\* whose devboxes were all Running, the last of which has saved the
\* backup-states file, the file records Running for every devbox, the state
\* a following restore sets it to.
C26_PauseRestoreRoundTrip ==
    (tool = "devbox-stop" /\ ~cfg.DryRun /\ pc = "done" /\ result = "ok") =>
        \A n \in DOMAIN store :
            store[n].kind = "Devbox" => RecordedState(n) = DevboxStateRunning

\* The devboxes the run has stopped: its Stopped write was sent and the
\* store holds it.
StoppedByRun ==
    {n \in DevboxNames : <<"stop", n>> \in started /\ store[n].state = DevboxStateStopped}

\* C27: backup-state coverage. When a pause run has returned, with or
\* without an error other than a failure to write the file itself, the
\* backup-states file holds the pre-pause state, Running, of every devbox
\* the run has stopped.
C27_BackupStateCoverage ==
    (/\ tool \in {"upgrade", "devbox-pause"} /\ ~cfg.DryRun
     /\ pc = "done" /\ err # "save-failed") =>
        \A n \in StoppedByRun : RecordedState(n) = DevboxStateRunning

\* The errors a failing store, file system or deadline gives; a Conflict is
\* the store's answer to a stale update and is not among them.
FaultErrors ==
    {"mkdir-failed", "list-failed", "get-failed", "update-failed", "save-failed",
     "delete-failed", "timeout"}

\* The listed devboxes that were Running with no commit in flight.
RunningIdle ==
    {n \in DevboxNames :
        \E i \in 1..Len(list) :
           /\ list[i].name = n
           /\ list[i].state = DevboxStateRunning
           /\ ~HasActiveCommits(list[i])}

\* No commit was in flight on any devbox, so the controller had nothing to
\* write during the run.
NoCommitInFlight == \A n \in DevboxNames : store[n].commits = NoCommits

\* C28: pause progress. A run of devbox-pause over the devboxes that met no
\* fault of the store and no other writer has returned without an error,
\* and every devbox that was Running with no commit in flight is Stopped
\* with upgrade-status paused, upgrade-step pause and original-state
\* Running.
C28_PauseProgress ==
    (/\ tool = "devbox-pause" /\ ~cfg.DryRun /\ ~cfg.OnlyController
     /\ pc = "done" /\ err \notin FaultErrors
     /\ extWrites = 0 /\ NoCommitInFlight) =>
        /\ result = "ok"
        /\ \A n \in RunningIdle :
              LET info == GetUpgradeInfo(store[n])
              IN  /\ store[n].state = DevboxStateStopped
                  /\ info.Status = UpgradeStatusPaused
                  /\ info.Step = UpgradeStepPause
                  /\ info.OriginalState = DevboxStateRunning

\* C29: stop after commit drain. In every tool that stops devboxes, the
\* step that sends a devbox's Stopped write is taken from a wait for that
\* devbox's commits that has returned without an error.
C29_StopAfterCommitDrain ==
    [][\A n \in DevboxNames :
          (<<"stop", n>> \in started' /\ <<"stop", n>> \notin started) =>
              /\ op.kind = "waitForCommitsToFinish"
              /\ op.name = n
              /\ op.phase = "done"
              /\ op.err = "ok"]_vars

(***************************************************************************)
(* Pause with the devbox controller still running                          *)
(***************************************************************************)
\* The controller, while its deployment exists, records a new commit of a
\* devbox as Pending in Status.CommitHistory; the write raises the
\* resourceVersion like any other.
StartCommit ==
    /\ result = "running"
    /\ controller = "present"
    /\ extWrites < MaxExtWrites
    /\ \E n \in DevboxNames :
          /\ Len(store[n].commits) < MaxCommits
          /\ store' = [store EXCEPT ![n] =
                          [@ EXCEPT !.rv = @ + 1,
                                    !.commits = Append(@, [Status |-> CommitStatusPending,
                                                           PredicatedStatus |-> ""])]]
    /\ extWrites' = extWrites + 1
    /\ UNCHANGED now
    /\ UNCHANGED toolVars
    /\ UNCHANGED infraVars
    /\ UNCHANGED convVars

\* devbox-pause --only-devboxes, or the upgrade tool with --only-pause,
\* neither as a dry run: the controller's deployment is left alone.
PauseConcurrentInit ==
    \/ /\ PauseInit
       /\ ~cfg.DryRun /\ cfg.OnlyDevboxes /\ ~cfg.OnlyController /\ ~cfg.PauseController
       /\ cfg.CommitTimeout > 0
    \/ /\ UpgradeInit
       /\ ~cfg.DryRun /\ cfg.OnlyPause /\ ~cfg.SkipPause /\ ~cfg.SkipBackup
       /\ ~cfg.OnlyBackup /\ ~cfg.OnlyTransform

PauseConcurrentNext ==
    \/ PerformPause
    \/ PauseList
    \/ PauseItem
    \/ PauseAnnotated
    \/ PauseWaited
    \/ PauseWritten
    \/ PauseMarked
    \/ PauseFailed
    \/ PerformUpgrade
    \/ UpgradeReturned
    \/ UpgradePauseList
    \/ UpgradePauseItem
    \/ UpgradePauseWaited
    \/ UpgradePauseWritten
    \/ OpGet
    \/ OpUpdate
    \/ WaitPoll
    \/ FinishCommit
    \/ StartCommit

SpecPauseConcurrent == PauseConcurrentInit /\ [][PauseConcurrentNext]_vars

\* C30: with the controller running during Pause, every step in which the
\* store accepts Pause's Stopped write of a devbox is taken in a state whose
\* stored devbox has no commit with status or predicated status Pending,
\* and leaves none.
C30_NoPendingAtStop ==
    [][\A n \in DevboxNames :
          (/\ tool \in {"upgrade", "devbox-pause"}
           /\ <<"stop", n>> \in started
           /\ store[n].state = DevboxStateRunning
           /\ store'[n].state = DevboxStateStopped) =>
              /\ ~HasActiveCommits(store[n])
              /\ ~HasActiveCommits(store'[n])]_vars

\* The upgrade tool has stopped a devbox in a run during which the
\* controller started a commit.
C30_Witness_StoppedBesideCommit ==
    /\ tool = "upgrade"
    /\ StoppedByRun # {}
    /\ extWrites > 0
    /\ \E m \in DevboxNames : Len(store[m].commits) = MaxCommits

(***************************************************************************)
(* devbox-transform with any --batch-size                                  *)
(***************************************************************************)
\* flag.IntVar accepts every integer and main does not validate it.
AnyBatchSize == (-1)..MaxBatchSize

TransformBatchesInit ==
    /\ IdleConv
    /\ ClusterInit({<<DevboxStateStopped, NoCommits>>})
    /\ ToolInit("devbox-transform",
                [DryRun : BOOLEAN, OnlyDevboxes : BOOLEAN, OnlyReleases : BOOLEAN,
                 BatchSize : AnyBatchSize])

\* The process is scheduled until it exits.
SpecTransformBatches ==
    TransformBatchesInit /\ [][TransformNext]_vars /\ WF_vars(TransformNext)

\* The resources performTransform is to go through.
ToTransform ==
    (IF cfg.OnlyReleases THEN {} ELSE DevboxNames)
        \cup (IF cfg.OnlyDevboxes THEN {} ELSE ReleaseNames)

\* C31: transform termination and coverage. For every batch size, zero and
\* negative ones included, devbox-transform comes to its end, and when it
\* ends without an error it has gone through every listed resource.
C31_TransformTerminates ==
    <>(pc = "done" /\ (result = "ok" => visited = ToTransform))

(***************************************************************************)
(* pkg/upgrade: the annotation calls on devboxes an upgrade has been over  *)
(***************************************************************************)
\* A devbox as the upgrade tool leaves it: AddUpgradeAnnotations with the
\* state it had, then the storage version touch.
AfterUpgrade(obj) ==
    upgradeForceStorageVersionUpdate(
        [obj EXCEPT !.ann = AddUpgradeAnnotations(@, UpgradeInfo("op-0", UpgradeStepPause,
                                                  UpgradeStatusInProgress, obj.state), 0),
                    !.rv = @ + 2], 0)

\* The callers of pkg/upgrade start on a cluster where some devboxes have
\* been through an upgrade and the others carry no annotation.
ClearInit ==
    /\ IdleConv
    /\ \E upgraded \in SUBSET DevboxNames :
          store = [n \in Names |->
                      IF n \in upgraded
                      THEN AfterUpgrade(NewObject("Devbox", n, DevboxStateRunning, NoCommits))
                      ELSE IF n \in DevboxNames
                      THEN NewObject("Devbox", n, DevboxStateRunning, NoCommits)
                      ELSE NewObject("DevBoxRelease", n, "", NoCommits)]
    /\ now = 1
    /\ extWrites = 0
    /\ controller = "present"
    /\ crds = [c \in CRDNames |-> InstalledCRD]
    /\ backups = {}
    /\ tool = "tracker"
    /\ cfg = [DryRun |-> FALSE]
    /\ pc = "start"
    /\ list = ListOf("Devbox")
    /\ listKind = "Devbox"
    /\ idxI = 0
    /\ idxJ = 0
    /\ devbox = NoObject
    /\ op = NoOp
    /\ retry = NoRetry
    /\ ctxDone = FALSE
    /\ result = "running"
    /\ failedOn = ""
    /\ err = ""
    /\ started = {}
    /\ visited = {}
    /\ backupStates = <<>>
    /\ backupFile = <<>>
    /\ operationID = ""
    /\ step = 0
    /\ phaseLog = <<>>
    /\ run = 1
    /\ writes = 0

SpecClear == ClearInit /\ [][TrackerNext]_vars

TrackerCalls == {"AddUpgradeAnnotations", "UpdateUpgradeAnnotation", "ClearUpgradeAnnotations"}

\* The k8sClient.Update of a tracker call is accepted in this step.
TrackerWriteAccepted ==
    /\ op.kind \in TrackerCalls
    /\ op.phase = "upd"
    /\ op'.phase = "done" /\ op'.err = "ok"

\* The k8sClient.Update of ClearUpgradeAnnotations is accepted in this step.
ClearAccepted == TrackerWriteAccepted /\ op.kind = "ClearUpgradeAnnotations"

\* C32: original-state immutability. Once a devbox carries the
\* original-state annotation, no step of AddUpgradeAnnotations,
\* UpdateUpgradeAnnotation (as the tools call it, for the status key) or
\* ClearUpgradeAnnotations changes or removes it.
C32_OriginalStateImmutable ==
    [][\A n \in DevboxNames :
          HasAnnotation(store[n].ann, AnnotationOriginalState) =>
             /\ HasAnnotation(store'[n].ann, AnnotationOriginalState)
             /\ store'[n].ann[AnnotationOriginalState] = store[n].ann[AnnotationOriginalState]]_vars

\* A devbox that carried the original state has been written by two tracker
\* calls and by nobody else, the second an AddUpgradeAnnotations naming
\* another state.
C32_Witness_SetAgain ==
    /\ op.kind = "AddUpgradeAnnotations" /\ op.phase = "done" /\ op.err = "ok"
    /\ op.info.OriginalState = DevboxStateStopped
    /\ op.latest.rv = 5 /\ op.latest = store[op.name]
    /\ extWrites = 0
    /\ HasAnnotation(store[op.name].ann, AnnotationOriginalState)
    /\ store[op.name].ann[AnnotationOriginalState] = DevboxStateRunning

\* C39: clear. An accepted ClearUpgradeAnnotations write leaves none of the
\* status, step, operation-id, timestamp, version, error and progress
\* annotations on the devbox, keeps the original-state annotation and every
\* other annotation with its value, adds none, and changes nothing else of
\* the devbox nor any other object.
C39_ClearFrame ==
    [][ClearAccepted =>
          /\ \A k \in {AnnotationUpgradeStatus, AnnotationUpgradeStep,
                       AnnotationUpgradeOperation, AnnotationUpgradeTimestamp,
                       AnnotationUpgradeVersion, AnnotationUpgradeError,
                       AnnotationUpgradeProgress} :
                ~HasAnnotation(store'[op.name].ann, k)
          /\ \A k \in DOMAIN store[op.name].ann :
                k \in {AnnotationOriginalState, AnnotationStorageUpgrade} =>
                   /\ HasAnnotation(store'[op.name].ann, k)
                   /\ store'[op.name].ann[k] = store[op.name].ann[k]
          /\ DOMAIN store'[op.name].ann \subseteq DOMAIN store[op.name].ann
          /\ store'[op.name] = [store[op.name] EXCEPT !.ann = store'[op.name].ann,
                                                       !.rv = store'[op.name].rv]
          /\ \A n \in Names \ {op.name} : store'[n] = store[n]]_vars

\* ClearUpgradeAnnotations has written a devbox that carries the original
\* state and an annotation of another tool.
C39_Witness_Cleared ==
    /\ op.kind = "ClearUpgradeAnnotations" /\ op.phase = "done" /\ op.err = "ok"
    /\ op.latest.rv > 3
    /\ op.latest = store[op.name]
    /\ HasAnnotation(store[op.name].ann, AnnotationOriginalState)
    /\ HasAnnotation(store[op.name].ann, AnnotationStorageUpgrade)
    /\ ~HasAnnotation(store[op.name].ann, AnnotationUpgradeStatus)

\* C40: timestamp stamping. After every accepted write of a tracker call
\* the devbox carries the timestamp annotation, and it holds the time of
\* that call.
C40_TimestampStamped ==
    [][TrackerWriteAccepted =>
          /\ HasAnnotation(store'[op.name].ann, AnnotationUpgradeTimestamp)
          /\ store'[op.name].ann[AnnotationUpgradeTimestamp] = FormatTime(now)]_vars

(***************************************************************************)
(* devbox-restore (v1alpha2): performRestore with needsRestoreCheck and    *)
(* the batch limit, restoreDevboxState, and the tool being run again.      *)
(***************************************************************************)
BatchRestoreConfig ==
    [DryRun : BOOLEAN, Force : BOOLEAN, OperationID : {"", "pause-0", "pause-9"},
     BatchSize : 0..MaxBatchSize]

\* The tool is run at most this many times in a row.
MaxRuns == MaxDevboxes

\* setupLog.Error of the tool: the first error it has logged is kept.
LogError(name, e) == IF phaseLog = <<>> THEN <<<<name, e>>>> ELSE phaseLog

\* The tool starts on a cluster whose devboxes the pause has stopped, with
\* the backup states file of that pause.
BatchRestoreInit ==
    /\ IdleConv
    /\ ClusterInit({<<DevboxStateStopped, NoCommits>>})
    /\ tool = "devbox-restore-v1alpha2"
    /\ cfg \in BatchRestoreConfig
    /\ pc = "start"
    /\ list = <<>>
    /\ listKind = ""
    /\ idxI = 0
    /\ idxJ = 0
    /\ devbox = NoObject
    /\ op = NoOp
    /\ retry = NoRetry
    /\ ctxDone = FALSE
    /\ result = "running"
    /\ failedOn = ""
    /\ err = ""
    /\ started = {}
    /\ visited = {}
    /\ backupStates = <<>>
    /\ backupFile \in BackupFiles
    /\ operationID = ""
    /\ step = 0
    /\ phaseLog = <<>>
    /\ run = 1
    /\ writes = 0

\* performRestore up to the checks: loadBackupStates, then the filter on
\* config.OperationID, which must not leave nothing.
BatchRestoreLoad ==
    /\ tool = "devbox-restore-v1alpha2" /\ pc = "start"
    /\ \E fault \in BOOLEAN :
          LET targetStates == IF cfg.OperationID # ""
                              THEN WithOperationID(backupFile, cfg.OperationID)
                              ELSE backupFile
          IN  IF fault
              THEN /\ Finish("error", "", "load-failed")
                   /\ phaseLog' = LogError("", "load-failed")
                   /\ UNCHANGED <<backupStates, idxI, list>>
              ELSE IF cfg.OperationID # "" /\ Len(targetStates) = 0
              THEN /\ Finish("error", "", "no-backup-states")
                   /\ phaseLog' = LogError("", "no-backup-states")
                   /\ UNCHANGED <<backupStates, idxI, list>>
              ELSE /\ backupStates' = targetStates
                   /\ list' = <<>>
                   /\ idxI' = 0
                   /\ pc' = "check"
                   /\ UNCHANGED <<result, failedOn, err, phaseLog>>
    /\ UNCHANGED <<tool, cfg, listKind, idxJ, devbox, op, retry, ctxDone, started, visited,
                   backupFile, operationID, step>>
    /\ UNCHANGED infraVars
    /\ UNCHANGED clusterVars
    /\ UNCHANGED convVars
    /\ UNCHANGED runVars

\* A restore that ignores --batch-size.
restoreCountUnlimited == Len(list)

\* performRestore, the batch limit on devboxesToRestore (held in list).
restoreCount ==
    IF cfg.BatchSize > 0 /\ Len(list) > cfg.BatchSize THEN cfg.BatchSize ELSE Len(list)

\* The head of the needsRestoreCheck loop: the next record's devbox is
\* fetched; after the last record the batch limit is applied, and the tool
\* returns when nothing is to be restored.
BatchRestoreCheck ==
    /\ tool = "devbox-restore-v1alpha2" /\ pc = "check"
    /\ IF idxI < Len(backupStates)
       THEN /\ op' = NewOp("Get", backupStates[idxI + 1].Name, NoObject, NoInfo, "", "")
            /\ visited' = visited \cup {backupStates[idxI + 1].Name}
            /\ pc' = "checking"
            /\ UNCHANGED <<idxI, result, failedOn, err>>
       ELSE IF restoreCount = 0
       THEN /\ Finish("ok", "", "")
            /\ UNCHANGED <<idxI, op, visited>>
       ELSE /\ idxI' = 0
            /\ pc' = "item"
            /\ UNCHANGED <<op, visited, result, failedOn, err>>
    /\ UNCHANGED <<tool, cfg, list, listKind, idxJ, devbox, retry, ctxDone, started>>
    /\ UNCHANGED fileVars
    /\ UNCHANGED orchVars
    /\ UNCHANGED infraVars
    /\ UNCHANGED clusterVars
    /\ UNCHANGED convVars
    /\ UNCHANGED runVars

\* needsRestoreCheck returned: an error ends the run unless Force is set; a
\* devbox whose Spec.State differs from the record is appended to
\* devboxesToRestore.
BatchRestoreChecked ==
    /\ tool = "devbox-restore-v1alpha2" /\ pc = "checking" /\ Returned
    /\ LET state == backupStates[idxI + 1]
       IN  IF ~Succeeded
           THEN /\ phaseLog' = LogError(state.Name, op.err)
                /\ IF cfg.Force
                   THEN /\ idxI' = idxI + 1
                        /\ pc' = "check"
                        /\ UNCHANGED <<result, failedOn, err>>
                   ELSE /\ Finish("error", state.Name, op.err)
                        /\ UNCHANGED idxI
                /\ UNCHANGED list
           ELSE /\ list' = IF op.latest.state = state.State THEN list ELSE Append(list, state)
                /\ idxI' = idxI + 1
                /\ pc' = "check"
                /\ UNCHANGED <<result, failedOn, err, phaseLog>>
    /\ UNCHANGED <<tool, cfg, listKind, idxJ, devbox, op, retry, ctxDone, started, visited, step>>
    /\ UNCHANGED fileVars
    /\ UNCHANGED infraVars
    /\ UNCHANGED clusterVars
    /\ UNCHANGED convVars
    /\ UNCHANGED runVars

\* restoreDevboxState returned an error to performRestore: it is logged and
\* returned unless Force is set, and then the next record follows.
BatchRestoreError(name, e) ==
    /\ phaseLog' = LogError(name, e)
    /\ IF cfg.Force
       THEN /\ idxI' = idxI + 1
            /\ pc' = "item"
            /\ UNCHANGED <<result, failedOn, err>>
       ELSE /\ Finish("error", name, e)
            /\ UNCHANGED idxI

\* The head of the restore loop and the head of restoreDevboxState: a dry run
\* returns nil; otherwise the devbox is fetched.
BatchRestoreItem ==
    /\ tool = "devbox-restore-v1alpha2" /\ pc = "item"
    /\ IF idxI < restoreCount
       THEN /\ IF cfg.DryRun
               THEN /\ idxI' = idxI + 1
                    /\ UNCHANGED <<pc, op, started>>
               ELSE /\ op' = NewOp("Get", list[idxI + 1].Name, NoObject, NoInfo, "", "")
                    /\ started' = started \cup {<<"restore", list[idxI + 1].Name>>}
                    /\ pc' = "getting"
                    /\ UNCHANGED idxI
            /\ UNCHANGED <<result, failedOn, err>>
       ELSE /\ Finish("ok", "", "")
            /\ UNCHANGED <<idxI, op, started>>
    /\ UNCHANGED <<tool, cfg, list, listKind, idxJ, devbox, retry, ctxDone, visited>>
    /\ UNCHANGED fileVars
    /\ UNCHANGED orchVars
    /\ UNCHANGED infraVars
    /\ UNCHANGED clusterVars
    /\ UNCHANGED convVars
    /\ UNCHANGED runVars

\* k8sClient.Get returned: AddUpgradeAnnotationsV1Alpha2 is called with the
\* restore step and version, no status and no original state.
BatchRestoreGot ==
    /\ tool = "devbox-restore-v1alpha2" /\ pc = "getting" /\ Returned
    /\ LET state == list[idxI + 1]
       IN  IF ~Succeeded
           THEN /\ BatchRestoreError(state.Name, op.err)
                /\ UNCHANGED <<devbox, op>>
           ELSE /\ devbox' = op.latest
                /\ op' = NewOp("AddUpgradeAnnotations", state.Name, devbox',
                               [UpgradeInfo("restore-" \o state.OperationID, UpgradeStepRestore,
                                            "", "")
                                    EXCEPT !.Version = "restore-v1alpha2"], "", "")
                /\ pc' = "annotating"
                /\ UNCHANGED <<idxI, result, failedOn, err, phaseLog>>
    /\ UNCHANGED <<tool, cfg, list, listKind, idxJ, retry, ctxDone, started, visited, step>>
    /\ UNCHANGED fileVars
    /\ UNCHANGED infraVars
    /\ UNCHANGED clusterVars
    /\ UNCHANGED convVars
    /\ UNCHANGED runVars

\* AddUpgradeAnnotationsV1Alpha2 returned (an error is logged and no more):
\* the devbox is fetched again.
BatchRestoreAnnotated ==
    /\ tool = "devbox-restore-v1alpha2" /\ pc = "annotating" /\ Returned
    /\ op' = NewOp("Get", devbox.name, NoObject, NoInfo, "", "")
    /\ pc' = "regetting"
    /\ phaseLog' = IF Succeeded THEN phaseLog ELSE LogError(devbox.name, op.err)
    /\ UNCHANGED <<tool, cfg, list, listKind, idxI, idxJ, devbox, retry, ctxDone, result,
                   failedOn, err, started, visited, step>>
    /\ UNCHANGED fileVars
    /\ UNCHANGED infraVars
    /\ UNCHANGED clusterVars
    /\ UNCHANGED convVars
    /\ UNCHANGED runVars

\* The second k8sClient.Get returned: Spec.State of the fetched devbox is
\* set to the record's and the devbox is sent with k8sClient.Update.
BatchRestoreRegot ==
    /\ tool = "devbox-restore-v1alpha2" /\ pc = "regetting" /\ Returned
    /\ LET state == list[idxI + 1]
       IN  IF ~Succeeded
           THEN /\ BatchRestoreError(state.Name, op.err)
                /\ UNCHANGED <<devbox, op>>
           ELSE /\ devbox' = [op.latest EXCEPT !.state = state.State]
                /\ op' = NewOp("Update", state.Name, devbox', NoInfo, "", "")
                /\ pc' = "updating"
                /\ UNCHANGED <<idxI, result, failedOn, err, phaseLog>>
    /\ UNCHANGED <<tool, cfg, list, listKind, idxJ, retry, ctxDone, started, visited, step>>
    /\ UNCHANGED fileVars
    /\ UNCHANGED infraVars
    /\ UNCHANGED clusterVars
    /\ UNCHANGED convVars
    /\ UNCHANGED runVars

\* k8sClient.Update returned.
BatchRestoreUpdated ==
    /\ tool = "devbox-restore-v1alpha2" /\ pc = "updating" /\ Returned
    /\ IF Succeeded
       THEN /\ idxI' = idxI + 1
            /\ pc' = "item"
            /\ UNCHANGED <<result, failedOn, err, phaseLog>>
       ELSE BatchRestoreError(devbox.name, op.err)
    /\ UNCHANGED <<tool, cfg, list, listKind, idxJ, devbox, op, retry, ctxDone, started,
                   visited, step>>
    /\ UNCHANGED fileVars
    /\ UNCHANGED infraVars
    /\ UNCHANGED clusterVars
    /\ UNCHANGED convVars
    /\ UNCHANGED runVars

\* The tool has exited and is run again with the same flags and the same
\* backup states file; nothing else has touched the cluster, the clock has
\* moved on.
BatchRestoreAgain ==
    /\ tool = "devbox-restore-v1alpha2" /\ pc = "done" /\ run < MaxRuns
    /\ run' = run + 1
    /\ writes' = 0
    /\ now' = now + 1
    /\ pc' = "start"
    /\ result' = "running"
    /\ failedOn' = ""
    /\ err' = ""
    /\ idxI' = 0
    /\ devbox' = NoObject
    /\ op' = NoOp
    /\ list' = <<>>
    /\ backupStates' = <<>>
    /\ started' = {}
    /\ visited' = {}
    /\ UNCHANGED <<tool, cfg, listKind, idxJ, retry, ctxDone, backupFile, operationID>>
    /\ UNCHANGED <<store, extWrites>>
    /\ UNCHANGED orchVars
    /\ UNCHANGED infraVars
    /\ UNCHANGED convVars

BatchRestoreNext ==
    \/ BatchRestoreLoad
    \/ BatchRestoreCheck
    \/ BatchRestoreChecked
    \/ BatchRestoreItem
    \/ BatchRestoreGot
    \/ BatchRestoreAnnotated
    \/ BatchRestoreRegot
    \/ BatchRestoreUpdated
    \/ BatchRestoreAgain
    \/ OpGet
    \/ OpUpdate

SpecBatchRestore == BatchRestoreInit /\ [][BatchRestoreNext]_vars

\* The devboxes whose Spec.State differs from their record in the file.
Differing ==
    {backupFile[k].Name : k \in {j \in 1..Len(backupFile) :
                                    store[backupFile[j].Name].state # backupFile[j].State}}

\* The devboxes a restore has annotated.
RestoreAnnotatedNames ==
    {n \in DevboxNames : /\ HasAnnotation(store[n].ann, AnnotationUpgradeStep)
                         /\ store[n].ann[AnnotationUpgradeStep] = UpgradeStepRestore}

\* The devboxes this run has begun to restore.
RestoreBegun == {n \in DevboxNames : <<"restore", n>> \in started}

\* C33: batch-limited restore convergence. With --batch-size B > 0 a run of
\* the tool writes only devboxes it has begun to restore, at most B of them;
\* and when no call has failed and nobody else writes, the r-th run that is
\* not a dry run ends with no devbox differing from the backup as soon as
\* r * B reaches the number k of devboxes that differed at first, that is
\* after at most ceil(k/B) runs.
C33_BatchedRestoreConverges ==
    [][/\ \A n \in Names : store'[n] # store[n] => n \in RestoreBegun
       /\ cfg.BatchSize > 0 => Cardinality(RestoreBegun') <= cfg.BatchSize
       /\ (/\ pc' = "done" /\ phaseLog' = <<>>
           /\ ~cfg.DryRun /\ cfg.BatchSize > 0
           /\ run' * cfg.BatchSize >= Cardinality(Differing' \cup RestoreAnnotatedNames'))
             => Differing' = {}]_vars

\* The second run with batch size 1 has ended without an error, all
\* devboxes differed at first, and none differs any more.
C33_Witness_SecondRunConverged ==
    /\ tool = "devbox-restore-v1alpha2" /\ pc = "done" /\ result = "ok"
    /\ phaseLog = <<>>
    /\ run = 2 /\ cfg.BatchSize = 1 /\ ~cfg.DryRun
    /\ Cardinality(RestoreAnnotatedNames) = 2
    /\ RestoreBegun # {}
    /\ Differing = {}

\* The k8sClient.Update of a storage version touch is accepted in this step.
TouchAccepted ==
    /\ op.kind \in {"forceStorageVersionUpdate", "upgrade.forceStorageVersionUpdate"}
    /\ op.phase = "upd"
    /\ op'.phase = "done" /\ op'.err = "ok"

\* C34: transform is a no-op touch. The write of forceStorageVersionUpdate
\* changes the annotations and the resourceVersion of the resource and
\* nothing else: state, runtime class, commits and generation are stored as
\* they were immediately before the write.
C34_TransformNoOpTouch ==
    [][TouchAccepted =>
          store'[op.name] = [store[op.name] EXCEPT !.ann = store'[op.name].ann,
                                                   !.rv = store'[op.name].rv]]_vars

(***************************************************************************)
(* Claims about what the conversions copy                                  *)
(***************************************************************************)
\* C35: upgrade copies configuration. After either conversion of a v1alpha1
\* devbox to v1alpha2 (ConvertTo of v1alpha1, ConvertFrom of v1alpha2) the
\* caller's v1alpha2 devbox has the state and the image of the source.
C35_UpgradeCopiesConfiguration ==
    convPc \in {"converted", "converted-by-v1alpha2"} =>
        /\ dst.Spec.State = src.State
        /\ dst.Spec.Image = src.Image

\* The places of the history entries, in the order of their times.
SortedByTime(history) ==
    \A i, j \in 1..Len(history) : i < j => history[i].Time <= history[j].Time

\* C36: downgrade ordering. ConvertFrom gives one history entry per record
\* of the record map, each with the record's CommitTime as its Time, and the
\* entries are in ascending order of time.
C36_DowngradeOrdering ==
    convPc = "restored" =>
        LET recs == dst.Status.CommitRecords
        IN  /\ Len(back.CommitHistory) = Cardinality(DOMAIN recs)
            /\ \A id \in DOMAIN recs :
                  \E i \in 1..Len(back.CommitHistory) :
                     /\ back.CommitHistory[i].ContainerID = id
                     /\ back.CommitHistory[i].Time = recs[id].CommitTime
            /\ SortedByTime(back.CommitHistory)

(***************************************************************************)
(* api/v1alpha1: DevBoxRelease conversion, and owner references            *)
(***************************************************************************)
MaxOwners == 2

\* metav1.OwnerReference: the owner's APIVersion and name.
OwnerReference == [APIVersion : {"devbox.sealos.io/v1alpha1", "apps/v1"}, Name : {"owner"}]

\* The zero values of a DevBoxRelease, v1alpha1 and v1alpha2.
ZeroReleaseV1 ==
    [APIVersion |-> "", Name |-> "", Namespace |-> "", OwnerReferences |-> <<>>,
     Spec |-> [DevboxName |-> "", NewTag |-> "", Notes |-> ""],
     Status |-> [Phase |-> "", OriginalImage |-> ""]]

ZeroReleaseV2 ==
    [APIVersion |-> "", Name |-> "", Namespace |-> "", OwnerReferences |-> <<>>,
     Spec |-> [DevboxName |-> "", Version |-> "", Notes |-> ""],
     Status |-> [OriginalDevboxState |-> "", Phase |-> "", SourceImage |-> "",
                 TargetImage |-> ""]]

\* for i := range dst.OwnerReferences { dst.OwnerReferences[i].APIVersion = ... }
RewriteOwnerReferences(refs, version) ==
    [i \in 1..Len(refs) |-> [refs[i] EXCEPT !.APIVersion = version]]

\* (*DevBoxRelease).ConvertTo, the object of its caller.
ReleaseConvertToResult(s, d) ==
    [CopyObjectMeta(s, d) EXCEPT
        !.APIVersion = "devbox.sealos.io/v1alpha2",
        !.OwnerReferences = RewriteOwnerReferences(s.OwnerReferences,
                                                   "devbox.sealos.io/v1alpha2"),
        !.Spec = [DevboxName |-> s.Spec.DevboxName, Version |-> s.Spec.NewTag,
                  Notes |-> s.Spec.Notes],
        !.Status = [OriginalDevboxState |-> "", Phase |-> s.Status.Phase,
                    SourceImage |-> s.Status.OriginalImage, TargetImage |-> ""]]

\* (*DevBoxRelease).ConvertFrom, the object of its caller.
ReleaseConvertFromResult(s, d) ==
    [CopyObjectMeta(s, d) EXCEPT
        !.APIVersion = "devbox.sealos.io/v1alpha1",
        !.OwnerReferences = RewriteOwnerReferences(s.OwnerReferences,
                                                   "devbox.sealos.io/v1alpha1"),
        !.Spec = [DevboxName |-> s.Spec.DevboxName, NewTag |-> s.Spec.Version,
                  Notes |-> s.Spec.Notes],
        !.Status = [Phase |-> s.Status.Phase, OriginalImage |-> s.Status.SourceImage]]

\* dst.OwnerReferences = src.OwnerReferences shares the slice's array, so
\* the loop over dst.OwnerReferences writes the source's references too.
SourceAfterRewrite(s, version) ==
    [s EXCEPT !.OwnerReferences = RewriteOwnerReferences(@, version)]

\* A devbox with owner references, or a release, is about to be converted.
MetaInit ==
    /\ \/ /\ src \in [Name : {"chisel"}, Namespace : {"ns1"},
                      OwnerReferences : SeqsUpTo(OwnerReference, MaxOwners),
                      State : {"Running", "Stopped"}, Image : {"base"},
                      CommitHistory : SeqsUpTo(CommitHistory, 1)]
          /\ dst = ZeroDevboxV2
          /\ back = ZeroDevboxV1
          /\ convPc = "input"
       \/ /\ src \in [APIVersion : {"devbox.sealos.io/v1alpha1"},
                      Name : {"chisel-v1"}, Namespace : {"ns1"},
                      OwnerReferences : SeqsUpTo(OwnerReference, MaxOwners),
                      Spec : [DevboxName : {"chisel"}, NewTag : {"v1", "v2"},
                              Notes : {"", "note"}],
                      Status : [Phase : {"Pending", "Success"}, OriginalImage : {"base"}]]
          /\ dst = ZeroReleaseV2
          /\ back = ZeroReleaseV1
          /\ convPc = "release-input"
    /\ IdleCluster
    /\ IdleTool

ReleaseConvertTo ==
    /\ convPc = "release-input"
    /\ dst' = ReleaseConvertToResult(src, dst)
    /\ src' = SourceAfterRewrite(src, "devbox.sealos.io/v1alpha2")
    /\ convPc' = "release-converted"
    /\ UNCHANGED back
    /\ UNCHANGED clusterVars
    /\ UNCHANGED toolVars
    /\ UNCHANGED infraVars

\* (*DevBoxRelease).ConvertFrom on the hub object ConvertTo filled.
ReleaseConvertFrom ==
    /\ convPc = "release-converted"
    /\ back' = ReleaseConvertFromResult(dst, back)
    /\ dst' = SourceAfterRewrite(dst, "devbox.sealos.io/v1alpha1")
    /\ convPc' = "release-restored"
    /\ UNCHANGED src
    /\ UNCHANGED clusterVars
    /\ UNCHANGED toolVars
    /\ UNCHANGED infraVars

MetaNext ==
    \/ ConvertTo
    \/ ConvertFrom
    \/ v1alpha2ConvertFrom
    \/ ReleaseConvertTo
    \/ ReleaseConvertFrom

SpecMeta == MetaInit /\ [][MetaNext]_vars

\* The object carries the identity of the other and every owner reference
\* of it names the version.
SameIdentity(to, from, version) ==
    /\ to.Name = from.Name
    /\ to.Namespace = from.Namespace
    /\ Len(to.OwnerReferences) = Len(from.OwnerReferences)
    /\ \A i \in 1..Len(to.OwnerReferences) :
          /\ to.OwnerReferences[i].Name = from.OwnerReferences[i].Name
          /\ to.OwnerReferences[i].APIVersion = version

\* C37: identity metadata. After an upgrade of a Devbox or a DevBoxRelease
\* the v1alpha2 object has the name and the namespace of the source and
\* every owner reference of it has APIVersion devbox.sealos.io/v1alpha2;
\* after a downgrade, the v1alpha1 object likewise with
\* devbox.sealos.io/v1alpha1.
C37_IdentityMetadata ==
    /\ convPc \in {"converted", "converted-by-v1alpha2", "release-converted"} =>
          SameIdentity(dst, src, "devbox.sealos.io/v1alpha2")
    /\ convPc \in {"restored", "release-restored"} =>
          SameIdentity(back, dst, "devbox.sealos.io/v1alpha1")

\* C38: conversion purity. No conversion changes its source: ConvertTo and
\* the v1alpha2 ConvertFrom leave the v1alpha1 object as it was, ConvertFrom
\* leaves the v1alpha2 object as it was.
C38_ConversionPurity ==
    [][/\ convPc \in {"input", "release-input"} => src' = src
       /\ convPc \in {"converted", "release-converted"} => dst' = dst]_vars

====
